---------------------------- MODULE Spec2Model ----------------------------
(***************************************************************************)
(* libaccess: the readers of ACCESS output files (pltutils.py), the        *)
(* profile and time-series composers built on them (genspc, genvar,        *)
(* metvar, canopy, rxns, tseries), the one-time-slice dashboard (pall1t)   *)
(* and the output dispatch (pltoutput).                                    *)
(*                                                                         *)
(* A file is the sequence of its lines, a line the sequence of tokens that *)
(* line.split() yields.  A call of a composer is run as its sequence of    *)
(* statements (a program); every loop iteration is one step.  An argument  *)
(* that the call reads only late (zmax, xmax, hc, tslice, outtype) is      *)
(* drawn at the statement that first reads it: nothing before that         *)
(* statement depends on it.                                                *)
(***************************************************************************)
EXTENDS Integers, Sequences, FiniteSets, TLC

\* ------------------------------------------------------------------ bounds
MaxNz       == 2     \* most vertical levels (data rows) of a profile file
SmallNts    == 3     \* time widths 0..SmallNts are all tried
MaxNts      == 11    \* one long run: more series than the palette has colours
MaxInterval == 3     \* sampling intervals 1..MaxInterval
MaxReads    == 3     \* calls of a reader on its own that are followed

\* --------------------------------------------------------------- constants
colors == <<"gray", "peru", "brown", "red", "royalblue", "green", "violet", "magenta", "cyan", "olive">>

SimName == "run1"

\* ---------------------------------------------------------- tokens, float()
\* The decimal numerals the sample files are written with; NumTok(n) is the
\* text of n.
Numerals ==
  <<"0", "1", "2", "3", "4", "5", "6", "7", "8", "9",
    "10", "11", "12", "13", "14", "15", "16", "17", "18", "19",
    "20", "21", "22", "23", "24", "25", "26", "27", "28", "29",
    "30", "31", "32", "33", "34", "35", "36", "37", "38", "39",
    "40", "41", "42", "43", "44", "45", "46", "47", "48", "49",
    "50", "51", "52", "53", "54", "55", "56", "57", "58", "59",
    "60", "61", "62", "63", "64", "65", "66", "67", "68", "69",
    "70", "71", "72", "73", "74", "75", "76", "77", "78", "79">>

NumTok(n) == Numerals[n + 1]

\* The value of every numeral.
NumVal == [tok \in {Numerals[i] : i \in 1..Len(Numerals)} |->
             (CHOOSE i \in 1..Len(Numerals) : Numerals[i] = tok) - 1] @@ << >>

\* Whether float(tok) accepts the token (else it raises ValueError).
IsNumeric(tok) == tok \in DOMAIN NumVal

\* float(tok) of a token float() accepts.
Float(tok) == NumVal[tok]

\* numpy.zeros(n)
Zeros(n) == [i \in 1..n |-> 0]

\* Python's sequence indexing: index i into a sequence of length n resolves to a
\* 0-based position, counting from the end when negative; -1 stands for IndexError.
PyIndex(n, i) ==
  IF i >= 0 /\ i < n THEN i
  ELSE IF i < 0 /\ i >= -n THEN n + i
  ELSE -1

\* ------------------------------------------------------------------- paths
\* os.getcwd()
Getcwd == "/work"

TimekeyPath(simname) == Getcwd \o "/" \o simname \o "/ACCESS_timekey.dat"

VarPath(simname, dirname, varname) ==
  Getcwd \o "/" \o simname \o "/" \o dirname \o "/" \o varname \o ".dat"

LaiPath(simname) == Getcwd \o "/" \o simname \o "/canopy/laiprof.dat"

\* ---------------------------------------------------- dates and times of day
\* The date and time-of-day texts of the sample time-key files.  strptime
\* accepts exactly a text of the pattern; the k-th entry of HrLabels is the
\* first five characters time[0:5] of the k-th entry of TimeToks.
Dates == <<"2018-07-01", "2018-07-02">>

TimeToks ==
  <<"00:00:00", "00:30:00", "01:00:00", "01:30:00", "02:00:00", "02:30:00", "03:00:00",
    "03:30:00", "04:00:00", "04:30:00", "05:00:00", "05:30:00", "06:00:00", "06:30:00",
    "07:00:00", "07:30:00", "08:00:00", "08:30:00", "09:00:00", "09:30:00", "10:00:00",
    "10:30:00", "11:00:00", "11:30:00", "12:00:00", "12:30:00", "13:00:00", "13:30:00",
    "14:00:00", "14:30:00", "15:00:00", "15:30:00", "16:00:00", "16:30:00", "17:00:00",
    "17:30:00", "18:00:00", "18:30:00", "19:00:00", "19:30:00", "20:00:00", "20:30:00",
    "21:00:00", "21:30:00", "22:00:00", "22:30:00", "23:00:00", "23:30:00">>

HrLabels ==
  <<"00:00", "00:30", "01:00", "01:30", "02:00", "02:30", "03:00",
    "03:30", "04:00", "04:30", "05:00", "05:30", "06:00", "06:30",
    "07:00", "07:30", "08:00", "08:30", "09:00", "09:30", "10:00",
    "10:30", "11:00", "11:30", "12:00", "12:30", "13:00", "13:30",
    "14:00", "14:30", "15:00", "15:30", "16:00", "16:30", "17:00",
    "17:30", "18:00", "18:30", "19:00", "19:30", "20:00", "20:30",
    "21:00", "21:30", "22:00", "22:30", "23:00", "23:30">>

\* strptime takes the fields of %m, %d, %H, %M and %S without their
\* leading zero as well: the same dates and times of day written so, and
\* the first five characters of these times.
LooseDates == <<"2018-7-1", "2018-7-2">>

LooseTimes ==
  <<"0:00:00", "0:30:00", "1:00:00", "1:30:00", "2:00:00", "2:30:00", "3:00:00",
    "3:30:00", "4:00:00", "4:30:00", "5:00:00", "5:30:00", "6:00:00", "6:30:00",
    "7:00:00", "7:30:00", "8:00:00", "8:30:00", "9:00:00", "9:30:00", "10:00:00",
    "10:30:00", "11:00:00", "11:30:00", "12:00:00", "12:30:00", "13:00:00", "13:30:00",
    "14:00:00", "14:30:00", "15:00:00", "15:30:00", "16:00:00", "16:30:00", "17:00:00",
    "17:30:00", "18:00:00", "18:30:00", "19:00:00", "19:30:00", "20:00:00", "20:30:00",
    "21:00:00", "21:30:00", "22:00:00", "22:30:00", "23:00:00", "23:30:00">>

LooseLabels ==
  <<"0:00:", "0:30:", "1:00:", "1:30:", "2:00:", "2:30:", "3:00:",
    "3:30:", "4:00:", "4:30:", "5:00:", "5:30:", "6:00:", "6:30:",
    "7:00:", "7:30:", "8:00:", "8:30:", "9:00:", "9:30:", "10:00",
    "10:30", "11:00", "11:30", "12:00", "12:30", "13:00", "13:30",
    "14:00", "14:30", "15:00", "15:30", "16:00", "16:30", "17:00",
    "17:30", "18:00", "18:30", "19:00", "19:30", "20:00", "20:30",
    "21:00", "21:30", "22:00", "22:30", "23:00", "23:30">>

IndexOf(seq, x) == CHOOSE i \in 1..Len(seq) : seq[i] = x

IsIn(seq, x) == \E i \in 1..Len(seq) : seq[i] = x

\* datetime.strptime(date+" "+time, "%Y-%m-%d %H:%M:%S"): defined on the texts
\* that match the format; the datetime is kept as (day, time of day).
Matches(date, time) ==
  /\ IsIn(Dates, date) \/ IsIn(LooseDates, date)
  /\ IsIn(TimeToks, time) \/ IsIn(LooseTimes, time)

strptime(date, time) ==
  [day |-> IF IsIn(Dates, date) THEN IndexOf(Dates, date) ELSE IndexOf(LooseDates, date),
   tod |-> IF IsIn(TimeToks, time) THEN IndexOf(TimeToks, time) ELSE IndexOf(LooseTimes, time)]

\* datetime.strftime(dt, "%Y-%m-%d %H:%M:%S")
strftime(dt) == Dates[dt.day] \o " " \o TimeToks[dt.tod]

\* time[0:5]
Prefix5(time) ==
  IF IsIn(TimeToks, time) THEN HrLabels[IndexOf(TimeToks, time)]
  ELSE LooseLabels[IndexOf(LooseTimes, time)]

\* lines[1:]
PyTail(lines) == IF Len(lines) = 0 THEN << >> ELSE Tail(lines)

\* ----------------------------------------------------------------- readers
\* Each reader is given the file system f (path -> lines; an absent path is a
\* missing file) and returns its result with err = "none", or the exception.

TimekeysFail(e) == [err |-> e, dts |-> << >>, hrs |-> << >>]

\* The loop of timekeys putting each pair in front of the earlier ones.
RECURSIVE TimekeysLoop_reversed(_, _, _, _)
TimekeysLoop_reversed(lines, i, dts, hrs) ==
  IF i > Len(lines) THEN [err |-> "none", dts |-> dts, hrs |-> hrs]
  ELSE LET data == lines[i] IN
       IF Len(data) < 3 THEN TimekeysFail("IndexError")
       ELSE IF ~Matches(data[2], data[3]) THEN TimekeysFail("ValueError")
       ELSE TimekeysLoop_reversed(lines, i + 1,
                                  <<strptime(data[2], data[3])>> \o dts,
                                  <<Prefix5(data[3])>> \o hrs)

\* The loop of timekeys over the lines after the header (i 1-based).
RECURSIVE TimekeysLoop(_, _, _, _)
TimekeysLoop(lines, i, dts, hrs) ==
  IF i > Len(lines) THEN [err |-> "none", dts |-> dts, hrs |-> hrs]
  ELSE LET data == lines[i] IN
       IF Len(data) < 3 THEN TimekeysFail("IndexError")
       ELSE IF ~Matches(data[2], data[3]) THEN TimekeysFail("ValueError")
       ELSE TimekeysLoop(lines, i + 1,
                         Append(dts, strptime(data[2], data[3])),
                         Append(hrs, Prefix5(data[3])))

\* timekeys with a missing file read as a file of no lines.
timekeys_lenient(f, simname) ==
  LET fndt == TimekeyPath(simname) IN
  IF fndt \notin DOMAIN f THEN [err |-> "none", dts |-> << >>, hrs |-> << >>]
  ELSE TimekeysLoop(PyTail(f[fndt]), 1, << >>, << >>)

timekeys(f, simname) ==
  LET fndt == TimekeyPath(simname) IN
  IF fndt \notin DOMAIN f THEN TimekeysFail("FileNotFoundError")
  ELSE TimekeysLoop(PyTail(f[fndt]), 1, << >>, << >>)

Get1DFail(e) == [err |-> e, z |-> << >>, var |-> << >>, nts |-> 0]

\* The inner loop of get1Dvar over the values of one row: data is the row
\* without its height, m the 0-based column, row is var[k, :] so far.
RECURSIVE FillRow(_, _, _, _)
FillRow(data, m, row, nts) ==
  IF m >= Len(data) THEN [err |-> "none", row |-> row]
  ELSE IF ~IsNumeric(data[m + 1]) THEN [err |-> "ValueError", row |-> row]
  ELSE IF m >= nts THEN [err |-> "IndexError", row |-> row]
  ELSE FillRow(data, m + 1, [row EXCEPT ![m + 1] = Float(data[m + 1])], nts)

\* The outer loop of get1Dvar over the data rows (k 0-based).
RECURSIVE FillRows(_, _, _, _, _)
FillRows(lines, k, z, var, nts) ==
  IF k >= Len(lines) THEN [err |-> "none", z |-> z, var |-> var, nts |-> nts]
  ELSE LET data == lines[k + 1] IN
       IF Len(data) = 0 THEN Get1DFail("IndexError")
       ELSE IF ~IsNumeric(data[1]) THEN Get1DFail("ValueError")
       ELSE LET r == FillRow(Tail(data), 0, var[k + 1], nts) IN
            IF r.err # "none" THEN Get1DFail(r.err)
            ELSE FillRows(lines, k + 1, [z EXCEPT ![k + 1] = Float(data[1])],
                          [var EXCEPT ![k + 1] = r.row], nts)

\* get1Dvar with the time width taken as the header's whole token count.
get1Dvar_width(f, simname, dirname, varname) ==
  LET fnvar == VarPath(simname, dirname, varname) IN
  IF fnvar \notin DOMAIN f THEN Get1DFail("FileNotFoundError")
  ELSE LET lines == f[fnvar] IN
       IF Len(lines) = 0 THEN Get1DFail("IndexError")
       ELSE LET nts  == Len(lines[1])
                rows == Tail(lines)
                nz   == Len(rows)
            IN  FillRows(rows, 0, Zeros(nz), [k \in 1..nz |-> Zeros(nts)], nts)

\* get1Dvar: z of length nz, var of shape (nz, nts); nts is var.shape[1].
get1Dvar(f, simname, dirname, varname) ==
  LET fnvar == VarPath(simname, dirname, varname) IN
  IF fnvar \notin DOMAIN f THEN Get1DFail("FileNotFoundError")
  ELSE LET lines == f[fnvar] IN
       IF Len(lines) = 0 THEN Get1DFail("IndexError")
       ELSE LET nts  == Len(lines[1]) - 1
                rows == Tail(lines)
                nz   == Len(rows)
            IN  IF nts < 0 THEN Get1DFail("ValueError")
                ELSE FillRows(rows, 0, Zeros(nz), [k \in 1..nz |-> Zeros(nts)], nts)

Get0DFail(e) == [err |-> e, var |-> << >>]

\* The loop of get0Dvar leaving a value it cannot convert at zero.
RECURSIVE Get0DLoop_lenient(_, _, _)
Get0DLoop_lenient(lines, i, var) ==
  IF i >= Len(lines) THEN [err |-> "none", var |-> var]
  ELSE LET data == lines[i + 1] IN
       IF Len(data) < 2 THEN Get0DFail("IndexError")
       ELSE IF ~IsNumeric(data[2]) THEN Get0DLoop_lenient(lines, i + 1, var)
       ELSE Get0DLoop_lenient(lines, i + 1, [var EXCEPT ![i + 1] = Float(data[2])])

\* The loop of get0Dvar over the lines after the header (i 0-based).
RECURSIVE Get0DLoop(_, _, _)
Get0DLoop(lines, i, var) ==
  IF i >= Len(lines) THEN [err |-> "none", var |-> var]
  ELSE LET data == lines[i + 1] IN
       IF Len(data) < 2 THEN Get0DFail("IndexError")
       ELSE IF ~IsNumeric(data[2]) THEN Get0DFail("ValueError")
       ELSE Get0DLoop(lines, i + 1, [var EXCEPT ![i + 1] = Float(data[2])])

\* get0Dvar keeping the first token of each row.
RECURSIVE Get0DLoop_first(_, _, _)
Get0DLoop_first(lines, i, var) ==
  IF i >= Len(lines) THEN [err |-> "none", var |-> var]
  ELSE LET data == lines[i + 1] IN
       IF Len(data) < 1 THEN Get0DFail("IndexError")
       ELSE IF ~IsNumeric(data[1]) THEN Get0DFail("ValueError")
       ELSE Get0DLoop_first(lines, i + 1, [var EXCEPT ![i + 1] = Float(data[1])])

get0Dvar_first(f, simname, dirname, varname) ==
  LET fnvar == VarPath(simname, dirname, varname) IN
  IF fnvar \notin DOMAIN f THEN Get0DFail("FileNotFoundError")
  ELSE LET lines == PyTail(f[fnvar]) IN
       Get0DLoop_first(lines, 0, Zeros(Len(lines)))

get0Dvar(f, simname, dirname, varname) ==
  LET fnvar == VarPath(simname, dirname, varname) IN
  IF fnvar \notin DOMAIN f THEN Get0DFail("FileNotFoundError")
  ELSE LET lines == PyTail(f[fnvar]) IN
       Get0DLoop(lines, 0, Zeros(Len(lines)))

\* ------------------------------------------------------------ sample files
\* A profile file of nz levels and ncols time steps: a header of ncols+1
\* tokens, then one row per level, heights ascending, every cell distinct.
GenProfile(nz, ncols) ==
  <<(<<"z">> \o [m \in 1..ncols |-> "t"])>> \o
  [k \in 1..nz |-> <<NumTok(20 * (k - 1))>> \o [m \in 1..ncols |-> NumTok(20 * (k - 1) + m)]]

\* A scalar file of n rows (time index, value).
GenScalar(n) ==
  <<(<<"index", "value">>)>> \o [i \in 1..n |-> <<NumTok(i), NumTok(30 + i)>>]

\* The time-key file of n output steps.
GenTimekey(n) ==
  <<(<<"index", "date", "time">>)>> \o
  [i \in 1..n |-> <<NumTok(i), Dates[((i - 1) \div Len(TimeToks)) + 1],
                    TimeToks[((i - 1) % Len(TimeToks)) + 1]>>]

\* laiprof.dat of nz levels (height, lai, cumulative lai).
GenLai(nz) ==
  <<(<<"z", "lai", "clai">>)>> \o
  [k \in 1..nz |-> <<NumTok(20 * (k - 1)), NumTok(k), NumTok(k - 1)>>]

\* What can be wrong with one file: a data line one token short or one token
\* long, a last or a first token that is no number (no time of day, in the
\* time-key file), a blank last line, one data line less or more.  "bumped"
\* is no defect: the last number of the file is 9 higher than in the other
\* files of the run.  "swapped" has its last two lines in the other order,
\* "nonnum1" a second token that is no number (no date), "loose" and "loose1"
\* a time and a date written without leading zeros.
DefectKinds ==
  {"short", "long", "nonnum", "nonnum0", "nonnum1", "blank", "fewer", "more", "bumped",
   "swapped", "loose", "loose1"}

Damage(lines, kind) ==
  LET n    == Len(lines)
      last == lines[n]
  IN  CASE kind = "short"   -> [lines EXCEPT ![n] = SubSeq(last, 1, Len(last) - 1)]
        [] kind = "long"    -> [lines EXCEPT ![n] = Append(last, NumTok(7))]
        [] kind = "nonnum"  -> [lines EXCEPT ![n] = [last EXCEPT ![Len(last)] = "abc"]]
        [] kind = "nonnum0" -> [lines EXCEPT ![n] = [last EXCEPT ![1] = "abc"]]
        [] kind = "blank"   -> Append(lines, << >>)
        [] kind = "fewer"   -> SubSeq(lines, 1, n - 1)
        [] kind = "more"    -> Append(lines, last)
        [] kind = "bumped"  -> IF Len(last) > 0 /\ IsNumeric(last[Len(last)])
                               THEN [lines EXCEPT ![n] = [last EXCEPT ![Len(last)] = NumTok(Float(@) + 9)]]
                               ELSE lines
        [] kind = "nonnum1" -> IF Len(last) >= 2 THEN [lines EXCEPT ![n] = [last EXCEPT ![2] = "abc"]]
                               ELSE lines
        [] kind = "swapped" -> IF n >= 3 THEN [lines EXCEPT ![n - 1] = last, ![n] = lines[n - 1]]
                               ELSE lines
        [] kind = "loose"   -> IF Len(last) > 0 /\ IsIn(TimeToks, last[Len(last)])
                               THEN [lines EXCEPT ![n] = [last EXCEPT ![Len(last)] =
                                                            LooseTimes[IndexOf(TimeToks, @)]]]
                               ELSE lines
        [] kind = "loose1"  -> IF Len(last) >= 2 /\ IsIn(Dates, last[2])
                               THEN [lines EXCEPT ![n] = [last EXCEPT ![2] =
                                                            LooseDates[IndexOf(Dates, @)]]]
                               ELSE lines
        [] OTHER            -> lines

\* ------------------------------------------------------------------- calls
\* The calls tried: the composer and the arguments that name its files.
\* intdt is set where the composer takes it.
Intervals == 1..MaxInterval

Calls ==
  [op : {"genspc.plotprofs"}, dirs : {<<"sp">>}, vars : {<<"o3">>}, outfn : {"o3prof"}, intdt : Intervals]
  \cup [op : {"genvar.plotprofs1"}, dirs : {<<"met">>}, vars : {<<"tk">>}, outfn : {"tkprof"}, intdt : Intervals]
  \cup [op : {"genvar.plotprofs2"}, dirs : {<<"met", "met">>}, vars : {<<"tk", "ubar">>},
        outfn : {"met2"}, intdt : Intervals]
  \cup [op : {"genvar.plotprofs3"}, dirs : {<<"met", "met", "met">>}, vars : {<<"tk", "ubar", "qh">>},
        outfn : {"met3"}, intdt : Intervals]
  \cup [op : {"metvar.plotprofs"}, dirs : {<<"met">>}, vars : {<<"tk">>, <<"kv">>, <<"wind">>},
        outfn : {""}, intdt : Intervals]
  \cup [op : {"canopy.plotall3"}, dirs : {<<"canopy">>}, vars : {<<"ppfd">>, <<"tl">>, <<"lai">>},
        outfn : {""}, intdt : Intervals]
  \cup [op : {"rxns.plotprofs"}, dirs : {<<"rates">>, <<"ks">>}, vars : {<<"1">>}, outfn : {""}, intdt : Intervals]
  \cup [op : {"budget.plotprofs"}, dirs : {<<"budget">>}, vars : {<<"o3">>}, outfn : {"o3bud"}, intdt : {1}]
  \cup [op : {"tseries.plottsm"}, dirs : {<<"flux">>}, vars : {<<"h">>, <<"h", "le">>, <<"h", "h">>},
        outfn : {"fluxes"}, intdt : {1}]
  \cup [op : {"pall1t.pltall1t"}, dirs : {<<"met", "canopy">>}, vars : {<< >>}, outfn : {""}, intdt : {1}]

\* varlabels and scolors of a plottsm call, one per entry of varnames.
TsLabels == <<"first", "second">>
TsColors == <<"red", "blue">>

\* str(rxnnum).zfill(5)
RECURSIVE ZFill(_, _)
ZFill(str, width) == IF Len(str) >= width THEN str ELSE ZFill("0" \o str, width)

\* ---------------------------------------------------------------- programs
\* The names metvar.plotprofs and canopy.plotall3 link with units and a title.
MetNames    == {"tk", "cair", "h2o", "kv", "pmb", "qh", "ubar"}
CanopyNames == {"ppfd", "nir", "rabs", "tl", "gs", "anet"}

\* The 22 profiles of pltall1t, in reading order: directory, file, the name of
\* the selected column, the unit conversion.
DashVars ==
  <<[dir |-> "met",    var |-> "tk",      name |-> "tair",    conv |-> "K2C"],
    [dir |-> "met",    var |-> "ubar",    name |-> "ubar",    conv |-> "cm2m"],
    [dir |-> "canopy", var |-> "fsun",    name |-> "fsun",    conv |-> "none"],
    [dir |-> "canopy", var |-> "fshd",    name |-> "fshd",    conv |-> "none"],
    [dir |-> "canopy", var |-> "ppfdsun", name |-> "ppfdsun", conv |-> "none"],
    [dir |-> "canopy", var |-> "ppfdshd", name |-> "ppfdshd", conv |-> "none"],
    [dir |-> "canopy", var |-> "nirsun",  name |-> "nirsun",  conv |-> "none"],
    [dir |-> "canopy", var |-> "nirshd",  name |-> "nirshd",  conv |-> "none"],
    [dir |-> "canopy", var |-> "lwup",    name |-> "lwup",    conv |-> "none"],
    [dir |-> "canopy", var |-> "lwdn",    name |-> "lwdn",    conv |-> "none"],
    [dir |-> "canopy", var |-> "rtsun",   name |-> "rtsun",   conv |-> "none"],
    [dir |-> "canopy", var |-> "rtshd",   name |-> "rtshd",   conv |-> "none"],
    [dir |-> "canopy", var |-> "rabssun", name |-> "rasun",   conv |-> "none"],
    [dir |-> "canopy", var |-> "rabsshd", name |-> "rashd",   conv |-> "none"],
    [dir |-> "canopy", var |-> "rssun",   name |-> "rssun",   conv |-> "none"],
    [dir |-> "canopy", var |-> "rsshd",   name |-> "rsshd",   conv |-> "none"],
    [dir |-> "canopy", var |-> "tlsun",   name |-> "tlsun",   conv |-> "K2C"],
    [dir |-> "canopy", var |-> "tlshd",   name |-> "tlshd",   conv |-> "K2C"],
    [dir |-> "canopy", var |-> "gssun",   name |-> "gssun",   conv |-> "none"],
    [dir |-> "canopy", var |-> "gsshd",   name |-> "gsshd",   conv |-> "none"],
    [dir |-> "canopy", var |-> "anetsun", name |-> "ansun",   conv |-> "none"],
    [dir |-> "canopy", var |-> "anetshd", name |-> "anshd",   conv |-> "none"]>>

\* One panel of a sampled profile figure: the colour index is reset, the loop
\* over the time steps plots table `slot` against the heights of `zslot`, and
\* the y axis is limited.
Panel(p, slot, zslot, ylim) ==
  <<[k |-> "resetic", panel |-> p],
    [k |-> "loop", panel |-> p, slot |-> slot, zslot |-> zslot],
    ylim>>

YlimArg(name)  == [k |-> "ylim", mode |-> "arg", arg |-> name, zslot |-> 1]
YlimZmax(slot) == [k |-> "ylim", mode |-> "sentinel", arg |-> "zmax", zslot |-> slot]
ReadIns(slot, dir, var) == [k |-> "read", slot |-> slot, dir |-> dir, var |-> var]

Prog_genspc_plotprofs(c) ==
  <<[k |-> "timekeys"], ReadIns(1, c.dirs[1], c.vars[1]), [k |-> "nts", from |-> "var", slot |-> 1]>>
  \o Panel(1, 1, 1, YlimZmax(1))
  \o <<[k |-> "xlim"], [k |-> "hcline"], [k |-> "xlabel", defined |-> TRUE],
       [k |-> "output", name |-> c.outfn]>>

Prog_genvar_plotprofs1(c) ==
  <<[k |-> "timekeys"], ReadIns(1, c.dirs[1], c.vars[1]), [k |-> "nts", from |-> "var", slot |-> 1]>>
  \o Panel(1, 1, 1, YlimArg("htop"))
  \o <<[k |-> "output", name |-> c.outfn]>>

Prog_genvar_plotprofs2(c) ==
  <<[k |-> "timekeys"], [k |-> "nts", from |-> "hrs", slot |-> 1]>>
  \o <<ReadIns(1, c.dirs[1], c.vars[1])>> \o Panel(1, 1, 1, YlimArg("htop"))
  \o <<ReadIns(2, c.dirs[2], c.vars[2])>> \o Panel(2, 2, 2, YlimArg("htop"))
  \o <<[k |-> "output", name |-> c.outfn]>>

Prog_genvar_plotprofs3(c) ==
  <<[k |-> "timekeys"], [k |-> "nts", from |-> "hrs", slot |-> 1]>>
  \o <<ReadIns(1, c.dirs[1], c.vars[1])>> \o Panel(1, 1, 1, YlimArg("htop"))
  \o <<ReadIns(2, c.dirs[2], c.vars[2])>> \o Panel(2, 2, 2, YlimArg("htop"))
  \o <<ReadIns(3, c.dirs[3], c.vars[3])>> \o Panel(3, 3, 3, YlimArg("htop"))
  \o <<[k |-> "output", name |-> c.outfn]>>

Prog_metvar_plotprofs(c) ==
  <<[k |-> "lookup", names |-> MetNames, msg |-> "Unknown met variable!"],
    [k |-> "timekeys"], ReadIns(1, "met", c.vars[1]), [k |-> "nts", from |-> "var", slot |-> 1]>>
  \o Panel(1, 1, 1, YlimArg("hmax"))
  \o <<[k |-> "output", name |-> c.vars[1]]>>

Prog_canopy_plotall3(c) ==
  <<[k |-> "lookup", names |-> CanopyNames, msg |-> "Unknown canopy variable!"],
    [k |-> "timekeys"],
    ReadIns(1, "canopy", c.vars[1] \o "sun"),
    ReadIns(2, "canopy", c.vars[1] \o "shd"),
    ReadIns(3, "canopy", c.vars[1] \o "wgt"),
    [k |-> "nts", from |-> "var", slot |-> 1]>>
  \o Panel(1, 1, 3, YlimArg("hc"))
  \o Panel(2, 2, 3, YlimArg("hc"))
  \o Panel(3, 3, 3, YlimArg("hc"))
  \o <<[k |-> "output", name |-> c.vars[1]]>>

Prog_rxns_plotprofs(c) ==
  <<[k |-> "timekeys"], ReadIns(1, c.dirs[1], "rxn" \o ZFill(c.vars[1], 5)),
    [k |-> "nts", from |-> "var", slot |-> 1]>>
  \o Panel(1, 1, 1, YlimZmax(1))
  \o <<[k |-> "xlim"], [k |-> "hcline"], [k |-> "xlabel", defined |-> FALSE],
       [k |-> "output", name |-> IF c.dirs[1] = "rates" THEN "rates" ELSE "ks"]>>

\* The five budget terms of budget.plotprofs, in reading and plotting order:
\* file suffix, index into colors, legend label.
BudgetTerms ==
  <<[var |-> "_bad", ci |-> 0, label |-> "cns"],
    [var |-> "_bch", ci |-> 3, label |-> "chm"],
    [var |-> "_bdp", ci |-> 4, label |-> "dep"],
    [var |-> "_bem", ci |-> 5, label |-> "ems"],
    [var |-> "_bvt", ci |-> 1, label |-> "vtx"]>>

\* z is assigned by every get1Dvar call, so the curves are drawn against the
\* z of the last file read.
Prog_budget_plotprofs(c) ==
  <<[k |-> "timekeys"]>>
  \o [i \in 1..Len(BudgetTerms) |-> ReadIns(i, "budget", c.vars[1] \o BudgetTerms[i].var)]
  \o <<[k |-> "nts", from |-> "hrs", slot |-> 1]>>
  \o [i \in 1..Len(BudgetTerms) |->
        [k |-> "bplot", slot |-> i, zslot |-> Len(BudgetTerms),
         ci |-> BudgetTerms[i].ci, label |-> BudgetTerms[i].label]]
  \o <<YlimZmax(Len(BudgetTerms)), [k |-> "xlim"], [k |-> "hcline"],
       [k |-> "xlabel", defined |-> TRUE], [k |-> "hrtitle"],
       [k |-> "output", name |-> c.outfn]>>

Prog_tseries_plottsm(c) ==
  <<[k |-> "timekeys"]>>
  \o [i \in 1..Len(c.vars) |-> [k |-> "read0", i |-> i]]
  \o <<[k |-> "nts", from |-> "dts", slot |-> 1]>>
  \o [i \in 1..Len(c.vars) |-> [k |-> "tsplot", i |-> i]]
  \o <<[k |-> "ticks"], [k |-> "legend"], [k |-> "output", name |-> c.outfn]>>

Prog_pall1t_pltall1t(c) ==
  <<[k |-> "timekeys"], [k |-> "datetimes"]>>
  \o [i \in 1..Len(DashVars) |-> [k |-> "readcol", i |-> i]]
  \o <<[k |-> "lai"], [k |-> "dash"], [k |-> "suptitle"], [k |-> "output", name |-> "pall1t"]>>

Program(c) ==
  CASE c.op = "genspc.plotprofs"  -> Prog_genspc_plotprofs(c)
    [] c.op = "genvar.plotprofs1" -> Prog_genvar_plotprofs1(c)
    [] c.op = "genvar.plotprofs2" -> Prog_genvar_plotprofs2(c)
    [] c.op = "genvar.plotprofs3" -> Prog_genvar_plotprofs3(c)
    [] c.op = "metvar.plotprofs"  -> Prog_metvar_plotprofs(c)
    [] c.op = "canopy.plotall3"   -> Prog_canopy_plotall3(c)
    [] c.op = "rxns.plotprofs"    -> Prog_rxns_plotprofs(c)
    [] c.op = "budget.plotprofs"  -> Prog_budget_plotprofs(c)
    [] c.op = "tseries.plottsm"   -> Prog_tseries_plottsm(c)
    [] c.op = "pall1t.pltall1t"   -> Prog_pall1t_pltall1t(c)

\* The program of every call tried ("@@ << >>" keeps it as a table worked out
\* once, as for the other tables below).
Programs == [c \in Calls |-> Program(c)] @@ << >>

\* -------------------------------------------------- the files a call opens
\* The files the statements of a call open, in program order, each with the
\* kind of its content.
InsFile(c, ins) ==
  CASE ins.k = "timekeys" -> [path |-> TimekeyPath(SimName), kind |-> "timekey"]
    [] ins.k = "read"     -> [path |-> VarPath(SimName, ins.dir, ins.var), kind |-> "profile"]
    [] ins.k = "read0"    -> [path |-> VarPath(SimName, c.dirs[1], c.vars[ins.i]), kind |-> "scalar"]
    [] ins.k = "readcol"  -> [path |-> VarPath(SimName, DashVars[ins.i].dir, DashVars[ins.i].var),
                              kind |-> "profile"]
    [] ins.k = "lai"      -> [path |-> LaiPath(SimName), kind |-> "lai"]

OpensFile(ins) == ins.k \in {"timekeys", "read", "read0", "readcol", "lai"}

CallFiles(c) ==
  LET prog == Programs[c] IN
  [i \in {j \in 1..Len(prog) : OpensFile(prog[j])} |-> InsFile(c, prog[i])] @@ << >>

\* The shapes of a run's output: nz levels, ncols time steps in the data
\* files, hlen steps in the time-key file (equal to ncols, or one off).
Shapes ==
  {sh \in [nz : 0..MaxNz, ncols : (0..SmallNts) \cup {MaxNts}, hlen : 0..(MaxNts + 1)] :
     sh.hlen \in {sh.ncols - 1, sh.ncols, sh.ncols + 1}}

BaseShape == [nz |-> MaxNz, ncols |-> SmallNts, hlen |-> SmallNts]

\* Runs of plottsm long enough for the coarser minor ticks, and one step
\* shorter: the time-key and the scalar files hold n lines of data.
LongNts == {48, 49}

LongShapes == {[nz |-> 0, ncols |-> n, hlen |-> n] : n \in LongNts}

GenFile(kind, sh) ==
  CASE kind = "timekey" -> GenTimekey(sh.hlen)
    [] kind = "profile" -> GenProfile(sh.nz, sh.ncols)
    [] kind = "scalar"  -> GenScalar(sh.ncols)
    [] kind = "lai"     -> GenLai(sh.nz)

\* The run directory of call c with shape sh; the file opened by statement
\* `target` of the program is damaged (or missing), target 0: none is.
GenFS(c, sh, defect, target) ==
  LET files == CallFiles(c)
      bad   == IF target = 0 THEN "" ELSE files[target].path
      paths == {files[i].path : i \in DOMAIN files} \ (IF defect = "missing" THEN {bad} ELSE {})
      kindOf(path) == files[CHOOSE i \in DOMAIN files : files[i].path = path].kind
  IN  [path \in paths |->
         IF path = bad THEN Damage(GenFile(kindOf(path), sh), defect) ELSE GenFile(kindOf(path), sh)]

\* ------------------------------------------------------------ lazy arguments
HtopVals   == {-1, 30}
ZmaxVals   == {-1, 10, 30}
XmaxVals   == {-1, 5}
HcVals     == {20, 25}
OutTypes   == {"pdf", "png", "x11", "PDF", "pfd", ""}
PltTypes   == {"marker", "line"}
TsliceVals == 0..(SmallNts + 1)
ItimeVals  == 0..SmallNts
\* The directory <cwd>/img that savefig writes into: pltoutput creates none.
ImgDirs    == {"present", "absent"}

ArgVals(name) ==
  CASE name \in {"htop", "hmax"} -> HtopVals
    [] name = "zmax"    -> ZmaxVals
    [] name = "xmax"    -> XmaxVals
    [] name = "hc"      -> HcVals
    [] name = "outtype" -> OutTypes
    [] name = "plttype" -> PltTypes
    [] name = "tslice"  -> TsliceVals
    [] name = "itime"   -> ItimeVals
    [] name = "imgdir"  -> ImgDirs

ArgNames == {"htop", "hmax", "zmax", "xmax", "hc", "outtype", "plttype", "tslice", "imgdir", "itime"}

\* ------------------------------------------------------------------- state
VARIABLES
  fs,       \* the files: path -> lines
  call,     \* the composer called, with the arguments that name its files
  pc,       \* the statement of Program(call) to run next
  status,   \* "running", "raised" (an exception left the call), "returned"
  err,      \* the exception raised, "none" if none
  ret,      \* the value returned
  arg,      \* the other arguments, each once the call has read it
  drawn,    \* the names of the arguments read so far
  loc,      \* the local variables of the call
  fig,      \* what has been drawn on the figure
  out,      \* files opened, messages printed, figures saved and shown
  first,    \* once the composer is called again: how the first call ended
  reads     \* the readers called on their own: file, its lines then, the result

vars == <<fs, call, pc, status, err, ret, arg, drawn, loc, fig, out, first, reads>>

EmptyTab == [z |-> << >>, var |-> << >>, nts |-> 0]

InitLoc ==
  [dts |-> << >>, hrs |-> << >>, tabs |-> <<EmptyTab, EmptyTab, EmptyTab, EmptyTab, EmptyTab>>, nts |-> 0,
   m |-> 0, ic |-> 0, zmax |-> 0,
   varx |-> << >>, clrs |-> << >>, vlbs |-> << >>,
   datetimes |-> << >>, z |-> << >>, cols |-> << >>, sel |-> << >>, lai |-> << >>, clai |-> << >>]

InitFig ==
  [series |-> << >>, ylim |-> << >>, xlim |-> << >>, hcl |-> << >>, title |-> "", titleidx |-> -1,
   legend |-> 0, ticks |-> << >>, raxlim |-> << >>, txlim |-> << >>]

InitOut == [opened |-> << >>, printed |-> << >>, saved |-> << >>, shown |-> 0]

NoFirst == [done |-> FALSE, fig |-> InitFig, status |-> "", err |-> ""]

Init ==
  /\ call \in Calls
  /\ \/ \E sh \in Shapes : fs = GenFS(call, sh, "none", 0)
     \/ call.op = "tseries.plottsm" /\ \E sh \in LongShapes : fs = GenFS(call, sh, "none", 0)
     \/ \E target \in DOMAIN CallFiles(call), defect \in DefectKinds \cup {"missing"} :
          fs = GenFS(call, BaseShape, defect, target)
  /\ pc = 1
  /\ status = "running"
  /\ err = "none"
  /\ ret = "None"
  /\ arg = [n \in ArgNames |-> IF n \in {"outtype", "plttype", "imgdir"} THEN "" ELSE 0]
  /\ drawn = {}
  /\ loc = InitLoc
  /\ fig = InitFig
  /\ out = InitOut
  /\ first = NoFirst
  /\ reads = << >>

\* ----------------------------------------------------------------- control
Running == status = "running" /\ pc <= Len(Programs[call])

Ins == Programs[call][pc]

\* The statement ends: with exception e, or normally (e = "none").
Ends(e) ==
  IF e # "none"
  THEN status' = "raised" /\ err' = e /\ UNCHANGED <<pc, ret>>
  ELSE pc' = pc + 1 /\ UNCHANGED <<status, err, ret>>

\* The call reads argument `name` and finds v.
Reads(name, v) ==
  /\ v \in ArgVals(name)
  /\ name \in drawn => v = arg[name]
  /\ arg' = [arg EXCEPT ![name] = v]
  /\ drawn' = drawn \cup {name}

Opened(path) == [out EXCEPT !.opened = Append(@, path)]

\* ------------------------------------------------------------- the statements
\* The lookup printing its message and going on with the call.
Lookup_goes_on ==
  /\ Running /\ Ins.k = "lookup"
  /\ out' = IF call.vars[1] \in Ins.names THEN out ELSE [out EXCEPT !.printed = Append(@, Ins.msg)]
  /\ Ends("none")
  /\ UNCHANGED <<reads, first, fs, call, arg, drawn, loc, fig>>

\* metvar.plotprofs, canopy.plotall3: link varname with units and title, or
\* print and return 1.
Lookup ==
  /\ Running /\ Ins.k = "lookup"
  /\ IF call.vars[1] \in Ins.names
     THEN Ends("none") /\ UNCHANGED out
     ELSE /\ out' = [out EXCEPT !.printed = Append(@, Ins.msg)]
          /\ status' = "returned" /\ ret' = "1" /\ UNCHANGED <<pc, err>>
  /\ UNCHANGED <<reads, first, fs, call, arg, drawn, loc, fig>>

\* dts, hrs = timekeys(simname)
Timekeys ==
  /\ Running /\ Ins.k = "timekeys"
  /\ LET r == timekeys(fs, SimName) IN
       /\ loc' = IF r.err = "none" THEN [loc EXCEPT !.dts = r.dts, !.hrs = r.hrs] ELSE loc
       /\ Ends(r.err)
  /\ out' = Opened(TimekeyPath(SimName))
  /\ UNCHANGED <<reads, first, fs, call, arg, drawn, fig>>

\* z, var = get1Dvar(simname, dirname, varname)
Read ==
  /\ Running /\ Ins.k = "read"
  /\ LET r == get1Dvar(fs, SimName, Ins.dir, Ins.var) IN
       /\ loc' = IF r.err = "none"
                 THEN [loc EXCEPT !.tabs[Ins.slot] = [z |-> r.z, var |-> r.var, nts |-> r.nts]]
                 ELSE loc
       /\ Ends(r.err)
  /\ out' = Opened(VarPath(SimName, Ins.dir, Ins.var))
  /\ UNCHANGED <<reads, first, fs, call, arg, drawn, fig>>

\* nts = var.shape[1], nts = len(hrs), nts = len(dts)
SetNts ==
  /\ Running /\ Ins.k = "nts"
  /\ loc' = [loc EXCEPT !.nts = CASE Ins.from = "var" -> loc.tabs[Ins.slot].nts
                                  [] Ins.from = "hrs" -> Len(loc.hrs)
                                  [] Ins.from = "dts" -> Len(loc.dts)]
  /\ Ends("none")
  /\ UNCHANGED <<reads, first, fs, call, arg, drawn, fig, out>>

\* The loop started without the colour index set back.
ResetIc_keep ==
  /\ Running /\ Ins.k = "resetic"
  /\ loc' = [loc EXCEPT !.m = 0]
  /\ Ends("none")
  /\ UNCHANGED <<reads, first, fs, call, arg, drawn, fig, out>>

\* The cursor reset at the first panel only.
ResetIc_first ==
  /\ Running /\ Ins.k = "resetic"
  /\ loc' = [loc EXCEPT !.ic = IF Ins.panel = 1 THEN 0 ELSE @, !.m = 0]
  /\ Ends("none")
  /\ UNCHANGED <<reads, first, fs, call, arg, drawn, fig, out>>

\* ic = 0, and the for loop starts at m = 0
ResetIc ==
  /\ Running /\ Ins.k = "resetic"
  /\ loc' = [loc EXCEPT !.ic = 0, !.m = 0]
  /\ Ends("none")
  /\ UNCHANGED <<reads, first, fs, call, arg, drawn, fig, out>>

\* The sampling test taken on the 1-based ordinal of the step.
Sampled_onebased(m, intdt) == (m + 1) % intdt = 0

\* (m % intdt) == 0
Sampled(m, intdt) == m % intdt = 0

\* The cursor wrapping one step late.
NextIc_late(ic) == IF ic + 1 > Len(colors) THEN 0 ELSE ic + 1

\* ic+=1; if (ic > len(colors)-1): ic = 0
NextIc(ic) == IF ic + 1 > Len(colors) - 1 THEN 0 ELSE ic + 1

\* Every series labelled with the first entry of hrs.
Labstr_first(hrs, m) == hrs[1]

\* labstr = hrs[m]   (m 0-based and in range)
Labstr(hrs, m) == hrs[m + 1]

\* One pass of "for m in range(nts)": a sampled step m is plotted as
\* var[:, m] against z with colors[ic] and label hrs[m].  plt.plot raises
\* ValueError when its x and y differ in length.
Loop ==
  /\ Running /\ Ins.k = "loop"
  /\ IF loc.m >= loc.nts
     THEN Ends("none") /\ UNCHANGED <<loc, fig>>
     ELSE IF ~Sampled(loc.m, call.intdt)
     THEN loc' = [loc EXCEPT !.m = @ + 1] /\ UNCHANGED <<pc, status, err, ret, fig>>
     ELSE LET tab == loc.tabs[Ins.slot]
              z   == loc.tabs[Ins.zslot].z
              h   == PyIndex(Len(loc.hrs), loc.m)
              col == PyIndex(tab.nts, loc.m)
              c   == PyIndex(Len(colors), loc.ic)
          IN  IF h = -1 \/ col = -1 \/ c = -1
              THEN Ends("IndexError") /\ UNCHANGED <<loc, fig>>
              ELSE IF Len(tab.var) # Len(z)
              THEN Ends("ValueError") /\ UNCHANGED <<loc, fig>>
              ELSE /\ fig' = [fig EXCEPT !.series = Append(@,
                                [panel |-> Ins.panel, slot |-> Ins.slot, col |-> col,
                                 color |-> colors[c + 1], label |-> Labstr(loc.hrs, h)])]
                   /\ loc' = [loc EXCEPT !.ic = NextIc(loc.ic), !.m = @ + 1]
                   /\ UNCHANGED <<pc, status, err, ret>>
  /\ UNCHANGED <<reads, first, fs, call, arg, drawn, out>>

\* The bound taken as given, the sentinel too.
ResolveZmax_verbatim(zmax, z) == zmax

\* if (zmax == -1.): zmax = z[nz-1]   (z not empty)
ResolveZmax(zmax, z) == IF zmax = -1 THEN z[PyIndex(Len(z), Len(z) - 1) + 1] ELSE zmax

\* plt.ylim(-0.1, htop), or with the sentinel resolved first: plt.ylim(-0.1, zmax)
Ylim ==
  /\ Running /\ Ins.k = "ylim"
  /\ \E v \in ArgVals(Ins.arg) :
       /\ Reads(Ins.arg, v)
       /\ IF Ins.mode = "arg"
          THEN /\ fig' = [fig EXCEPT !.ylim = Append(@, v)]
               /\ Ends("none") /\ UNCHANGED loc
          ELSE LET z == loc.tabs[Ins.zslot].z IN
               IF v = -1 /\ PyIndex(Len(z), Len(z) - 1) = -1
               THEN Ends("IndexError") /\ UNCHANGED <<loc, fig>>
               ELSE /\ loc' = [loc EXCEPT !.zmax = ResolveZmax(v, z)]
                    /\ fig' = [fig EXCEPT !.ylim = Append(@, ResolveZmax(v, z))]
                    /\ Ends("none")
  /\ UNCHANGED <<reads, first, fs, call, out>>

\* The x-axis limits set whatever the bound is.
SetXlim_always(xlim, xmax) == Append(xlim, [lo |-> "-0.1", hi |-> xmax])

\* The calls of plt.xlim so far, after "if (xmax != -1.): plt.xlim(-0.1, xmax)".
SetXlim(xlim, xmax) == IF xmax # -1 THEN Append(xlim, [lo |-> "-0.1", hi |-> xmax]) ELSE xlim

\* if (xmax != -1.): plt.xlim(-0.1, xmax)
Xlim ==
  /\ Running /\ Ins.k = "xlim"
  /\ \E v \in ArgVals("xmax") :
       /\ Reads("xmax", v)
       /\ fig' = [fig EXCEPT !.xlim = SetXlim(@, v)]
  /\ Ends("none")
  /\ UNCHANGED <<reads, first, fs, call, loc, out>>

\* The marker drawn also when the bound is the canopy height itself.
HasHcLine_orequal(zmax, hc) == zmax >= hc

\* if (zmax > hc)
HasHcLine(zmax, hc) == zmax > hc

\* if (zmax > hc): the dashed line at the canopy height
Hcline ==
  /\ Running /\ Ins.k = "hcline"
  /\ \E v \in ArgVals("hc") :
       /\ Reads("hc", v)
       /\ fig' = IF HasHcLine(loc.zmax, v) THEN [fig EXCEPT !.hcl = Append(@, v)] ELSE fig
  /\ Ends("none")
  /\ UNCHANGED <<reads, first, fs, call, loc, out>>

\* plt.xlabel(spcname+"-"+varunits, ...): spcname is a parameter of
\* genspc.plotprofs and no name at all in rxns.plotprofs.
Xlabel ==
  /\ Running /\ Ins.k = "xlabel"
  /\ Ends(IF Ins.defined THEN "none" ELSE "NameError")
  /\ UNCHANGED <<reads, first, fs, call, arg, drawn, loc, fig, out>>

\* plt.savefig(fname): the file is written when its directory is there.
savefig(o, fname, imgdir) ==
  IF imgdir = "present"
  THEN [err |-> "none", out |-> [o EXCEPT !.saved = Append(@, fname)]]
  ELSE [err |-> "FileNotFoundError", out |-> o]

\* pltoutput with the display shown after the pdf is written as well.
pltoutput_both(o, simname, varname, outtype, imgdir) ==
  LET ofname == Getcwd \o "/img/" \o simname \o "_" \o varname IN
  IF outtype = "pdf"
  THEN LET r == savefig(o, ofname \o ".pdf", imgdir) IN
       IF r.err = "none" THEN [r EXCEPT !.out.shown = @ + 1] ELSE r
  ELSE IF outtype = "png" THEN savefig(o, ofname \o ".png", imgdir)
  ELSE [err |-> "none", out |-> [o EXCEPT !.shown = @ + 1]]

\* pltoutput taking the selector in either case.
pltoutput_anycase(o, simname, varname, outtype, imgdir) ==
  LET ofname == Getcwd \o "/img/" \o simname \o "_" \o varname IN
  IF outtype \in {"pdf", "PDF"} THEN savefig(o, ofname \o ".pdf", imgdir)
  ELSE IF outtype \in {"png", "PNG"} THEN savefig(o, ofname \o ".png", imgdir)
  ELSE [err |-> "none", out |-> [o EXCEPT !.shown = @ + 1]]

\* pltoutput(simname, varname, outtype): what it adds to the output o.
pltoutput(o, simname, varname, outtype, imgdir) ==
  LET ofname == Getcwd \o "/img/" \o simname \o "_" \o varname IN
  IF outtype = "pdf" THEN savefig(o, ofname \o ".pdf", imgdir)
  ELSE IF outtype = "png" THEN savefig(o, ofname \o ".png", imgdir)
  ELSE [err |-> "none", out |-> [o EXCEPT !.shown = @ + 1]]

\* pltoutput(simname, outfn, outtype), the last statement of every composer.
\* The img directory is looked at when savefig runs.
Output ==
  /\ Running /\ Ins.k = "output"
  /\ \E v \in ArgVals("outtype") :
       \E d \in (IF v \in {"pdf", "png"} THEN ArgVals("imgdir") ELSE {""}) :
         /\ "outtype" \in drawn => v = arg["outtype"]
         /\ "imgdir" \in drawn => d = arg["imgdir"]
         /\ arg' = [arg EXCEPT !["outtype"] = v, !["imgdir"] = d]
         /\ drawn' = drawn \cup {"outtype"} \cup (IF d = "" THEN {} ELSE {"imgdir"})
         /\ LET r == pltoutput(out, SimName, Ins.name, v, d) IN
              out' = r.out /\ Ends(r.err)
  /\ UNCHANGED <<reads, first, fs, call, loc, fig>>

\* The end of the function body: return.
Return ==
  /\ status = "running" /\ pc = Len(Programs[call]) + 1
  /\ status' = "returned"
  /\ UNCHANGED <<reads, first, fs, call, pc, err, ret, arg, drawn, loc, fig, out>>

\* --------------------------------------------------------- budget.plotprofs
\* plt.plot(bad[:, itime], z, color=colors[0], ..., label="cns") and the
\* four like it: column itime of one budget term against z.
Bplot ==
  /\ Running /\ Ins.k = "bplot"
  /\ \E v \in ArgVals("itime") :
       /\ Reads("itime", v)
       /\ LET tab == loc.tabs[Ins.slot]
              z   == loc.tabs[Ins.zslot].z
              col == PyIndex(tab.nts, v)
          IN  IF col = -1
              THEN Ends("IndexError") /\ UNCHANGED fig
              ELSE IF Len(tab.var) # Len(z)
              THEN Ends("ValueError") /\ UNCHANGED fig
              ELSE /\ fig' = [fig EXCEPT !.series = Append(@,
                                [panel |-> 1, slot |-> Ins.slot, col |-> col,
                                 color |-> colors[Ins.ci + 1], label |-> Ins.label])]
                   /\ Ends("none")
  /\ UNCHANGED <<reads, first, fs, call, loc, out>>

\* plt.title(simname+" - "+hrs[itime], ...)
HrTitle ==
  /\ Running /\ Ins.k = "hrtitle"
  /\ LET i == PyIndex(Len(loc.hrs), arg["itime"]) IN
       IF i = -1 THEN Ends("IndexError") /\ UNCHANGED fig
       ELSE /\ fig' = [fig EXCEPT !.title = SimName \o " - " \o loc.hrs[i + 1], !.titleidx = i]
            /\ Ends("none")
  /\ UNCHANGED <<reads, first, fs, call, arg, drawn, loc, out>>

\* ---------------------------------------------------------- tseries.plottsm
\* One pass of the zip loop: dat = get0Dvar(...); varx[varname] = dat;
\* clrs[varname] = scolor; vlbs[varname] = varlabel (dictionaries by name).
Read0 ==
  /\ Running /\ Ins.k = "read0"
  /\ LET varname == call.vars[Ins.i]
         r       == get0Dvar(fs, SimName, call.dirs[1], varname)
     IN  /\ loc' = IF r.err = "none"
                   THEN [loc EXCEPT !.varx = (varname :> r.var) @@ @,
                                    !.clrs = (varname :> TsColors[Ins.i]) @@ @,
                                    !.vlbs = (varname :> TsLabels[Ins.i]) @@ @]
                   ELSE loc
         /\ Ends(r.err)
         /\ out' = Opened(VarPath(SimName, call.dirs[1], varname))
  /\ UNCHANGED <<reads, first, fs, call, arg, drawn, fig>>

\* One pass of "for varname in varnames": plt.plot(dts, varx[varname], ...),
\* as markers or as a line.  plt.plot raises ValueError when dts and the data
\* differ in length.
Tsplot ==
  /\ Running /\ Ins.k = "tsplot"
  /\ \E v \in ArgVals("plttype") :
       /\ Reads("plttype", v)
       /\ LET varname == call.vars[Ins.i] IN
          IF Len(loc.dts) # Len(loc.varx[varname])
          THEN Ends("ValueError") /\ UNCHANGED fig
          ELSE /\ fig' = [fig EXCEPT !.series = Append(@,
                            [panel |-> 1, name |-> varname, data |-> loc.varx[varname],
                             color |-> loc.clrs[varname], label |-> loc.vlbs[varname],
                             style |-> IF v = "marker" THEN "marker" ELSE "line"])]
               /\ Ends("none")
  /\ UNCHANGED <<reads, first, fs, call, loc, out>>

\* The legend condition, and a variant that also holds for one variable.
HasLegend_always(varnames) == Len(varnames) >= 1
HasLegend(varnames) == Len(varnames) > 1

\* Hours between minor ticks for nts samples, and a variant that switches
\* to the coarser spacing one sample early.
HourInterval_early(nts) == IF nts >= 48 THEN 4 ELSE 1
HourInterval(nts) == IF nts > 48 THEN 4 ELSE 1

\* The minor ticks: every 4 hours if (nts > 48), else every hour.
Ticks ==
  /\ Running /\ Ins.k = "ticks"
  /\ fig' = [fig EXCEPT !.ticks = Append(@, HourInterval(loc.nts))]
  /\ Ends("none")
  /\ UNCHANGED <<reads, first, fs, call, arg, drawn, loc, out>>

\* if (len(varnames) > 1): plt.legend(...)
Legend ==
  /\ Running /\ Ins.k = "legend"
  /\ fig' = IF HasLegend(call.vars) THEN [fig EXCEPT !.legend = @ + 1] ELSE fig
  /\ Ends("none")
  /\ UNCHANGED <<reads, first, fs, call, arg, drawn, loc, out>>

\* ---------------------------------------------------------- pall1t.pltall1t
\* Values of the dashboard are kept in hundredths: Kelvin to Celsius is
\* v - 273.15, cm/s to m/s is v*0.01.
Conv(conv, v) ==
  CASE conv = "K2C"  -> 100 * v - 27315
    [] conv = "cm2m" -> v
    [] OTHER         -> 100 * v

\* datetimes = [strftime(dt) for dt in dts]
Datetimes ==
  /\ Running /\ Ins.k = "datetimes"
  /\ loc' = [loc EXCEPT !.datetimes = [i \in 1..Len(loc.dts) |-> strftime(loc.dts[i])]]
  /\ Ends("none")
  /\ UNCHANGED <<reads, first, fs, call, arg, drawn, fig, out>>

\* The column of time slice tslice (t0 = 1): a[:, tslice-1]
SliceColumn(tslice) == tslice - 1

\* z, a = get1Dvar(simname, dir, var); x = a[:, tslice-1], converted
Readcol ==
  /\ Running /\ Ins.k = "readcol"
  /\ \E t \in ArgVals("tslice") :
       /\ Reads("tslice", t)
       /\ LET dv  == DashVars[Ins.i]
              r   == get1Dvar(fs, SimName, dv.dir, dv.var)
              col == PyIndex(r.nts, SliceColumn(t))
          IN  IF r.err # "none" THEN Ends(r.err) /\ UNCHANGED loc
              ELSE IF col = -1 THEN Ends("IndexError") /\ UNCHANGED loc
              ELSE /\ loc' = [loc EXCEPT
                                !.z = r.z,
                                !.cols = (dv.name :> [k \in 1..Len(r.var) |-> Conv(dv.conv, r.var[k][col + 1])]) @@ @,
                                !.sel = (dv.name :> col) @@ @]
                   /\ Ends("none")
       /\ out' = Opened(VarPath(SimName, DashVars[Ins.i].dir, DashVars[Ins.i].var))
  /\ UNCHANGED <<reads, first, fs, call, fig>>

LaiFail(e) == [err |-> e, lai |-> << >>, clai |-> << >>]

\* The loop over the lines of laiprof.dat (k 0-based), lai and clai of length nz.
RECURSIVE LaiLoop(_, _, _, _)
LaiLoop(lines, k, lai, clai) ==
  IF k >= Len(lines) THEN [err |-> "none", lai |-> lai, clai |-> clai]
  ELSE LET data == lines[k + 1] IN
       IF Len(data) < 2 THEN LaiFail("IndexError")
       ELSE IF ~IsNumeric(data[2]) THEN LaiFail("ValueError")
       ELSE IF k >= Len(lai) THEN LaiFail("IndexError")
       ELSE IF Len(data) < 3 THEN LaiFail("IndexError")
       ELSE IF ~IsNumeric(data[3]) THEN LaiFail("ValueError")
       ELSE LaiLoop(lines, k + 1, [lai EXCEPT ![k + 1] = Float(data[2])],
                    [clai EXCEPT ![k + 1] = Float(data[3])])

ReadLai(f, simname, nz) ==
  IF LaiPath(simname) \notin DOMAIN f THEN LaiFail("FileNotFoundError")
  ELSE LaiLoop(PyTail(f[LaiPath(simname)]), 0, Zeros(nz), Zeros(nz))

Lai ==
  /\ Running /\ Ins.k = "lai"
  /\ LET r == ReadLai(fs, SimName, Len(loc.z)) IN
       /\ loc' = IF r.err = "none" THEN [loc EXCEPT !.lai = r.lai, !.clai = r.clai] ELSE loc
       /\ Ends(r.err)
  /\ out' = Opened(LaiPath(SimName))
  /\ UNCHANGED <<reads, first, fs, call, arg, drawn, fig>>

\* The markers of the ten panels: panel, plotted variable, index into colors.
DashPlots ==
  <<[panel |-> 1,  name |-> "lai",     ci |-> 0],
    [panel |-> 2,  name |-> "fsun",    ci |-> 1], [panel |-> 2,  name |-> "fshd",    ci |-> 2],
    [panel |-> 3,  name |-> "lwup",    ci |-> 3], [panel |-> 3,  name |-> "lwdn",    ci |-> 4],
    [panel |-> 4,  name |-> "rasun",   ci |-> 1], [panel |-> 4,  name |-> "rashd",   ci |-> 2],
    [panel |-> 5,  name |-> "tlsun",   ci |-> 1], [panel |-> 5,  name |-> "tlshd",   ci |-> 2],
    [panel |-> 5,  name |-> "tair",    ci |-> 3],
    [panel |-> 6,  name |-> "ubar",    ci |-> 0],
    [panel |-> 7,  name |-> "gssun",   ci |-> 1], [panel |-> 7,  name |-> "gsshd",   ci |-> 2],
    [panel |-> 8,  name |-> "rssun",   ci |-> 1], [panel |-> 8,  name |-> "rsshd",   ci |-> 2],
    [panel |-> 9,  name |-> "ansun",   ci |-> 1], [panel |-> 9,  name |-> "anshd",   ci |-> 2],
    [panel |-> 10, name |-> "ppfdsun", ci |-> 1], [panel |-> 10, name |-> "ppfdshd", ci |-> 2],
    [panel |-> 10, name |-> "nirsun",  ci |-> 3], [panel |-> 10, name |-> "nirshd",  ci |-> 4]>>

SeqMin(seq) == CHOOSE x \in {seq[i] : i \in 1..Len(seq)} : \A i \in 1..Len(seq) : x <= seq[i]
SeqMax(seq) == CHOOSE x \in {seq[i] : i \in 1..Len(seq)} : \A i \in 1..Len(seq) : x >= seq[i]
Abs(x) == IF x < 0 THEN -x ELSE x
Max2(a, b) == IF a >= b THEN a ELSE b

\* The loop taking every row, whatever its cumulative leaf area.
RECURSIVE RaLoop_all(_, _, _, _, _, _)
RaLoop_all(rasun, rashd, clai, i, sumra, nra) ==
  IF i >= Len(clai) THEN [sumra |-> sumra, nra |-> nra]
  ELSE RaLoop_all(rasun, rashd, clai, i + 1, sumra + (rasun[i + 1] + rashd[i + 1]) \div 2, nra + 1)

\* sumra and nra of the loop "for i in range(nz): if (clai[i] > 0.0): ..."
\* (sumra in hundredths, 0.5*radif[i] being half of rasun[i]+rashd[i]).
RECURSIVE RaLoop(_, _, _, _, _, _)
RaLoop(rasun, rashd, clai, i, sumra, nra) ==
  IF i >= Len(clai) THEN [sumra |-> sumra, nra |-> nra]
  ELSE IF clai[i + 1] > 0
       THEN RaLoop(rasun, rashd, clai, i + 1, sumra + (rasun[i + 1] + rashd[i + 1]) \div 2, nra + 1)
       ELSE RaLoop(rasun, rashd, clai, i + 1, sumra, nra)

\* The x window of the absorbed-radiation panel, ramean -+ max(50, 0.1*ramean),
\* as exact fractions lo/den and hi/den.
RaWindow(rasun, rashd, clai) ==
  LET r == RaLoop(rasun, rashd, clai, 0, 0, 0) IN
  IF r.nra > 0
  THEN [lo  |-> 10 * r.sumra - Max2(50000 * r.nra, r.sumra),
        hi  |-> 10 * r.sumra + Max2(50000 * r.nra, r.sumra),
        den |-> 1000 * r.nra, nra |-> r.nra, sumra |-> r.sumra]
  ELSE [lo |-> -50, hi |-> 50, den |-> 1, nra |-> 0, sumra |-> 0]

\* The window with the half width held at 5 degrees.
TempWindow_fixed(tair, tlsun, tlshd) == [lo |-> SeqMin(tair) - 500, hi |-> SeqMax(tair) + 500]

\* The x window of the temperature panel, in hundredths of a degree.
TempWindow(tair, tlsun, tlshd) ==
  LET dtx == Max2(500, SeqMax([i \in 1..Len(tlsun) |-> Abs(tlsun[i] - tlshd[i])])) IN
  [lo |-> SeqMin(tair) - dtx, hi |-> SeqMax(tair) + dtx]

\* The ten panels.  A marker series whose data and z differ in length makes
\* plot raise ValueError; min() of an empty tair raises ValueError.
Dash ==
  /\ Running /\ Ins.k = "dash"
  /\ LET nz   == Len(loc.z)
         x(n) == IF n = "lai" THEN loc.lai ELSE loc.cols[n]
     IN  IF (\E i \in 1..Len(DashPlots) : Len(x(DashPlots[i].name)) # nz) \/ nz = 0
         THEN Ends("ValueError") /\ UNCHANGED fig
         ELSE /\ fig' = [fig EXCEPT
                           !.series = [i \in 1..Len(DashPlots) |->
                                         [panel |-> DashPlots[i].panel, name |-> DashPlots[i].name,
                                          color |-> colors[DashPlots[i].ci + 1],
                                          col |-> IF DashPlots[i].name = "lai" THEN -1
                                                  ELSE loc.sel[DashPlots[i].name]]],
                           !.raxlim = <<RaWindow(loc.cols["rasun"], loc.cols["rashd"], loc.clai)>>,
                           !.txlim = <<TempWindow(loc.cols["tair"], loc.cols["tlsun"], loc.cols["tlshd"])>>]
              /\ Ends("none")
  /\ UNCHANGED <<reads, first, fs, call, arg, drawn, loc, out>>

\* The timestamp of the figure title: datetimes[tslice]
TitleIndex(tslice) == tslice

\* plt.suptitle(simname+" - "+datetimes[tslice], ...)
Suptitle ==
  /\ Running /\ Ins.k = "suptitle"
  /\ LET i == PyIndex(Len(loc.datetimes), TitleIndex(arg["tslice"])) IN
       IF i = -1 THEN Ends("IndexError") /\ UNCHANGED fig
       ELSE /\ fig' = [fig EXCEPT !.title = SimName \o " - " \o loc.datetimes[i + 1], !.titleidx = i]
            /\ Ends("none")
  /\ UNCHANGED <<reads, first, fs, call, arg, drawn, loc, out>>

\* --------------------------------------------------------------------- spec
Next ==
  \/ Lookup
  \/ Timekeys
  \/ Read
  \/ SetNts
  \/ ResetIc
  \/ Loop
  \/ Ylim
  \/ Xlim
  \/ Hcline
  \/ Xlabel
  \/ Output
  \/ Return
  \/ Read0
  \/ Tsplot
  \/ Ticks
  \/ Legend
  \/ Datetimes
  \/ Readcol
  \/ Lai
  \/ Dash
  \/ Suptitle
  \/ Bplot
  \/ HrTitle

Spec == Init /\ [][Next]_vars

\* ------------------------------------------------------- the composer again
\* The caller calls the same composer a second time, with the same arguments
\* on the same files.  pyplot starts a new figure (plt.subplots); the frame of
\* the second call is left holding the values of the first, so that a
\* statement reading a local before the call assigns it would show.  The
\* profile composers (those with a loop over the time steps) are called
\* twice, with the axis bounds and the output kind of TwiceArgs.
TwiceArgs ==
  [htop |-> -1, hmax |-> -1, zmax |-> -1, xmax |-> 5, hc |-> 20, outtype |-> "x11",
   plttype |-> "line", tslice |-> 1, imgdir |-> ""]

Again ==
  /\ ~first.done /\ status \in {"returned", "raised"}
  /\ \E j \in 1..Len(Programs[call]) : Programs[call][j].k = "loop"
  /\ \A name \in drawn : arg[name] = TwiceArgs[name]
  /\ first' = [done |-> TRUE, fig |-> fig, status |-> status, err |-> err]
  /\ pc' = 1 /\ status' = "running" /\ err' = "none" /\ ret' = "None"
  /\ fig' = InitFig
  /\ UNCHANGED <<reads, fs, call, arg, drawn, loc, out>>

NextTwice ==
  \/ Next
  \/ Again

SpecTwice == Init /\ [][NextTwice]_vars

\* ------------------------------------------------- the readers on their own
\* timekeys, get1Dvar and get0Dvar called directly, several times, on the
\* files of a run that is rewritten between the calls.
ReaderCalls ==
  {c \in Calls : \/ c.op = "genspc.plotprofs" /\ c.intdt = 1
                 \/ c.op = "tseries.plottsm" /\ c.vars = <<"h">>}

\* A run one time step shorter than the base run.
ShorterShape == [BaseShape EXCEPT !.ncols = @ - 1, !.hlen = @ - 1]

\* The call of a reader that statement i of the program makes, on files f.
ReaderResult(f, c, i) ==
  LET ins == Programs[c][i] IN
  CASE ins.k = "timekeys" -> timekeys(f, SimName)
    [] ins.k = "read"     -> get1Dvar(f, SimName, ins.dir, ins.var)
    [] ins.k = "read0"    -> get0Dvar(f, SimName, c.dirs[1], c.vars[ins.i])

\* The lines of a file as a reader finds them; no lines, no file.
Contents(f, path) == IF path \in DOMAIN f THEN <<"file", f[path]>> ELSE <<"no file">>

\* A reader that hands out again what an earlier call returned for the path.
Returned_memo(log, path, fresh) ==
  IF \E k \in 1..Len(log) : log[k].path = path
  THEN log[CHOOSE k \in 1..Len(log) : log[k].path = path].res
  ELSE fresh

\* What a reader returns: the value it has just worked out from the lines
\* read in this call; it keeps nothing from the calls before.
Returned(log, path, fresh) == fresh

ReaderCall ==
  /\ Len(reads) < MaxReads
  /\ \E i \in DOMAIN CallFiles(call) :
       LET path == CallFiles(call)[i].path IN
       reads' = Append(reads, [path |-> path, stmt |-> i, lines |-> Contents(fs, path),
                               res |-> Returned(reads, path, ReaderResult(fs, call, i))])
  /\ UNCHANGED <<fs, call, pc, status, err, ret, arg, drawn, loc, fig, out, first>>

\* Another program rewrites, or removes, the file read last.
Rewrite ==
  /\ reads # << >> /\ Len(reads) < MaxReads
  /\ LET last == reads[Len(reads)]
         path == last.path
         kind == CallFiles(call)[last.stmt].kind
     IN  /\ last.lines = Contents(fs, path)
         /\ \/ \E defect \in DefectKinds :
                  fs' = (path :> Damage(GenFile(kind, BaseShape), defect)) @@ fs
            \/ fs' = (path :> GenFile(kind, ShorterShape)) @@ fs
            \/ /\ path \in DOMAIN fs
               /\ fs' = [q \in DOMAIN fs \ {path} |-> fs[q]]
         /\ fs' # fs
  /\ UNCHANGED <<call, pc, status, err, ret, arg, drawn, loc, fig, out, first, reads>>

InitReaders == Init /\ call \in ReaderCalls /\ fs = GenFS(call, BaseShape, "none", 0)

NextReaders == \/ ReaderCall \/ Rewrite

SpecReaders == InitReaders /\ [][NextReaders]_vars

\* ------------------------------------------------------------------- claims
Prog == Programs[call]

\* The statements of the call that are behind it: run to their end, without
\* an exception.
Passed(j) == pc > j

\* A profile file as the header declares it: a header of N+1 tokens, then
\* rows of N+1 numeric tokens each.
WellFormedProfile(lines) ==
  /\ Len(lines) >= 1
  /\ Len(lines[1]) >= 1
  /\ \A k \in 2..Len(lines) :
       /\ Len(lines[k]) = Len(lines[1])
       /\ \A m \in 1..Len(lines[k]) : IsNumeric(lines[k][m])

ReadPath(j) == VarPath(SimName, Prog[j].dir, Prog[j].var)

\* C1: get1Dvar of a well-formed profile file (header of N+1 tokens, R data
\* rows of N+1 numeric tokens) does not fail and returns z of length R and a
\* table of R rows by N columns, z[k] the first token of data row k and
\* table[k][m] token m+1 of that row, in file order.
C1_WellFormedProfileIsReadWhole ==
  \A j \in 1..Len(Prog) :
    (Prog[j].k = "read" /\ ReadPath(j) \in DOMAIN fs /\ WellFormedProfile(fs[ReadPath(j)])) =>
      LET lines == fs[ReadPath(j)]
          R     == Len(lines) - 1
          N     == Len(lines[1]) - 1
          tab   == loc.tabs[Prog[j].slot]
      IN  /\ status = "raised" => pc # j
          /\ Passed(j) =>
               /\ Len(tab.z) = R
               /\ Len(tab.var) = R
               /\ tab.nts = N
               /\ \A k \in 1..R :
                    /\ tab.z[k] = NumVal[lines[k + 1][1]]
                    /\ Len(tab.var[k]) = N
                    /\ \A m \in 1..N : tab.var[k][m] = NumVal[lines[k + 1][m + 1]]

C1_Witness ==
  /\ call.op = "genspc.plotprofs" /\ status = "returned"
  /\ WellFormedProfile(fs[VarPath(SimName, "sp", "o3")])
  /\ Len(loc.tabs[1].z) >= 2 /\ loc.tabs[1].nts >= 2
  /\ loc.tabs[1].var[2][2] # loc.tabs[1].var[1][2]

\* C2: when a data row of a profile file holds a number of tokens other than
\* the header's, get1Dvar fails: the call never gets past the read (no table
\* with the row padded or cut is returned).
C2_RowWidthMismatchFails ==
  \A j \in 1..Len(Prog) :
    (/\ Prog[j].k = "read" /\ ReadPath(j) \in DOMAIN fs
     /\ Len(fs[ReadPath(j)]) >= 1
     /\ \E k \in 2..Len(fs[ReadPath(j)]) : Len(fs[ReadPath(j)][k]) # Len(fs[ReadPath(j)][1]))
    => ~Passed(j)

\* The kinds of statement there are, and the statements of every kind in
\* every program, worked out once.
StmtKinds == UNION {{Programs[c][j].k : j \in 1..Len(Programs[c])} : c \in Calls}

StmtsTable ==
  [c \in Calls |-> [k \in StmtKinds |-> {j \in 1..Len(Programs[c]) : Programs[c][j].k = k}]] @@ << >>

\* The statements of kind k in the call's program.
StmtsOf(k) == StmtsTable[call][k]

\* C3: in pltall1t with time slice t in 1..nts, every plotted profile is
\* column t-1 of its table and the title carries the timestamp of the same
\* time step, entry t-1 of the time index.
C3_TitleTimestampIsOfThePlottedSlice ==
  (/\ call.op = "pall1t.pltall1t" /\ "tslice" \in drawn
   /\ arg["tslice"] \in 1..Len(loc.dts))
  => /\ \A j \in StmtsOf("dash") : Passed(j) =>
          \A i \in 1..Len(fig.series) :
            fig.series[i].name # "lai" => fig.series[i].col = arg["tslice"] - 1
     /\ \A j \in StmtsOf("suptitle") : Passed(j) =>
          /\ fig.titleidx = arg["tslice"] - 1
          /\ fig.title = SimName \o " - " \o strftime(loc.dts[arg["tslice"]])

\* The series rendered in panel p, in the order of rendering.
PanelSeries(p) == SelectSeq(fig.series, LAMBDA s : s.panel = p)

\* C4: a sampled profile panel with interval k over nts time steps renders
\* exactly the ordinals m of 0..nts-1 with m mod k = 0, in ascending order:
\* all of them when k = 1, ordinal 0 alone when k >= nts >= 1.
C4_PanelRendersTheMultiplesOfInterval ==
  \A j \in StmtsOf("loop") :
    Passed(j) =>
      LET ser == PanelSeries(Prog[j].panel)
          k   == call.intdt
          nts == loc.nts
      IN  /\ {ser[i].col : i \in 1..Len(ser)} = {m \in 0..(nts - 1) : m % k = 0}
          /\ \A i \in 1..Len(ser) : \A i2 \in 1..Len(ser) : i < i2 => ser[i].col < ser[i2].col
          /\ k = 1 => Len(ser) = nts
          /\ (k >= nts /\ nts >= 1) => (Len(ser) = 1 /\ ser[1].col = 0)

C4_Witness ==
  /\ call.op = "genvar.plotprofs2" /\ status = "returned"
  /\ call.intdt = 3 /\ loc.nts = MaxNts
  /\ Len(PanelSeries(2)) = 4 /\ PanelSeries(2)[4].col = 9

\* C5: in a profile panel the colour cursor stays in 0..9, the j-th series
\* rendered (j from 0) has colour j mod 10 of the palette of ten, and so the
\* 11th series has the colour of the 1st.
C5_ColoursCycleThroughThePalette ==
  /\ Len(colors) = 10
  /\ loc.ic \in 0..9
  /\ \A j \in StmtsOf("loop") :
       LET ser == PanelSeries(Prog[j].panel) IN
       /\ \A i \in 1..Len(ser) : ser[i].color = colors[((i - 1) % 10) + 1]
       /\ Len(ser) >= 11 => ser[11].color = ser[1].color

C5_Witness ==
  /\ call.op = "genvar.plotprofs1" /\ status = "returned"
  /\ Len(PanelSeries(1)) = 11
  /\ PanelSeries(1)[11].color = "gray" /\ PanelSeries(1)[10].color = "olive"

\* The place of ylim statement j among the ylim statements of the call.
YlimOrdinal(j) == Cardinality({i \in StmtsOf("ylim") : i <= j})

\* The vertical coordinate of the panel that ylim statement j closes.
PanelZ(j) == loc.tabs[Prog[j - 1].zslot].z

C7_OutputIsOneFileOrTheDisplay ==
  \A j \in StmtsOf("output") :
    LET t     == arg["outtype"]
        fname == Getcwd \o "/img/" \o SimName \o "_" \o Prog[j].name
    IN  /\ (Passed(j) /\ t = "pdf") => (out.saved = <<fname \o ".pdf">> /\ out.shown = 0)
        /\ (Passed(j) /\ t = "png") => (out.saved = <<fname \o ".png">> /\ out.shown = 0)
        /\ (Passed(j) /\ t = "x11") => (out.saved = << >> /\ out.shown = 1)
        /\ Passed(j) => (t \in {"pdf", "png"} => arg["imgdir"] = "present")
        /\ Passed(j) => Len(out.saved) + out.shown = 1
        /\ (status = "raised" /\ pc = j) => (t \in {"pdf", "png"} /\ arg["imgdir"] = "absent")
        /\ ~Passed(j) => (out.saved = << >> /\ out.shown = 0)

C7_Witness ==
  /\ call.op = "tseries.plottsm" /\ status = "returned"
  /\ arg["outtype"] = "pdf" /\ out.saved = <<"/work/img/run1_" \o call.outfn \o ".pdf">>
  /\ out.shown = 0

\* The files the call reads, by the statement that opens them.
FilesOf == [c \in Calls |-> CallFiles(c)] @@ << >>
Files == FilesOf[call]

IsOpened(path) == \E i \in 1..Len(out.opened) : out.opened[i] = path

NoFigure == out.saved = << >> /\ out.shown = 0

\* A token that float() rejects, in some row after the header.
HasNonNumeric(lines) ==
  \E k \in 2..Len(lines) : \E m \in 1..Len(lines[k]) : ~IsNumeric(lines[k][m])

ConvertedNonNumeric(kind, lines) ==
  CASE kind = "profile" -> HasNonNumeric(lines)
    [] kind = "scalar"  -> \E k \in 2..Len(lines) : Len(lines[k]) >= 2 /\ ~IsNumeric(lines[k][2])
    [] kind = "lai"     -> \E k \in 2..Len(lines) :
                             \/ Len(lines[k]) >= 2 /\ ~IsNumeric(lines[k][2])
                             \/ Len(lines[k]) >= 3 /\ ~IsNumeric(lines[k][3])
    [] OTHER            -> FALSE

UnknownName == \E j \in StmtsOf("lookup") : call.vars[1] \notin Prog[j].names

\* C9: when a file the composer needs (time keys, profile, scalar or leaf
\* area) is absent, the call never gets past the statement that opens it and
\* never returns; the open that fails raises FileNotFoundError to the caller,
\* the path is opened once and not again, and no figure is written or
\* displayed.
C9_MissingFileEndsTheCall ==
  \A j \in DOMAIN Files :
    (Files[j].path \notin DOMAIN fs /\ ~UnknownName)
    => /\ ~Passed(j)
       /\ status # "returned"
       /\ (status = "raised" /\ pc = j) => err = "FileNotFoundError"
       /\ IsOpened(Files[j].path) => (status = "raised" /\ err = "FileNotFoundError")
       /\ Cardinality({i \in 1..Len(out.opened) : out.opened[i] = Files[j].path}) <= 1
       /\ NoFigure

C9_Witness ==
  /\ call.op = "pall1t.pltall1t" /\ status = "raised" /\ err = "FileNotFoundError"
  /\ LaiPath(SimName) \notin DOMAIN fs
  /\ out.opened[Len(out.opened)] = LaiPath(SimName)
  /\ NoFigure

\* C10: metvar.plotprofs and canopy.plotall3, given a variable name their
\* table does not have, print the message and return 1: no file is
\* opened, no exception raised, no figure written or displayed.
C10_UnknownNameAbortsBeforeReading ==
  \A j \in StmtsOf("lookup") :
    IF call.vars[1] \notin Prog[j].names
    THEN /\ out.opened = << >> /\ NoFigure
         /\ pc = j /\ status # "raised"
         /\ status = "returned" => (out.printed = <<Prog[j].msg>> /\ ret = "1")
         /\ status = "running" => out.printed = << >>
    ELSE out.printed = << >> /\ ret = "None"

C10_Witness ==
  /\ call.op = "canopy.plotall3" /\ call.vars = <<"lai">>
  /\ status = "returned" /\ ret = "1"
  /\ out.printed = <<"Unknown canopy variable!">>
  /\ out.opened = << >>

\* The sum of f over the finite set S of its arguments.
RECURSIVE SumOver(_, _)
SumOver(S, f) ==
  IF S = {} THEN 0
  ELSE LET x == CHOOSE y \in S : TRUE IN f[x] + SumOver(S \ {x}, f)

\* Whether the window win (lo/den, hi/den) is [mean - w, mean + w], with
\* w = max(50, 0.1*mean), for the mean of 0.5*(rasun[i]+rashd[i]) over the
\* rows with clai[i] > 0 (0 when there is none).  rasun and rashd are in
\* hundredths; the comparison is made on cross products, without rounding.
IsRadiationWindow(win, rasun, rashd, clai) ==
  LET rows == {i \in 1..Len(clai) : clai[i] > 0}
      n    == Cardinality(rows)
      S    == SumOver(rows, [i \in rows |-> rasun[i] + rashd[i]])
      w    == IF 100000 * n >= S THEN 100000 * n ELSE S
  IN  IF n = 0
      THEN win.lo = -50 * win.den /\ win.hi = 50 * win.den /\ win.den > 0
      ELSE /\ win.den > 0
           /\ win.lo * (2000 * n) = (10 * S - w) * win.den
           /\ win.hi * (2000 * n) = (10 * S + w) * win.den

\* C11: in pltall1t the absorbed-radiation window is [mean - w, mean + w],
\* w = max(50, 0.1*mean), the mean being the sum of 0.5*(rasun[i]+rashd[i])
\* over exactly the rows with clai[i] > 0 divided by their number, and 0 when
\* there is no such row.  For clai = [0,0,2,3] and sums [100,100,200,300] the
\* last two rows alone count: mean 125, window [75, 175]; for a mean of 1000
\* the half width is 100.
C11_RadiationWindowOverLeafyRows ==
  /\ \A j \in StmtsOf("dash") :
       Passed(j) =>
         /\ Len(fig.raxlim) = 1
         /\ IsRadiationWindow(fig.raxlim[1], loc.cols["rasun"], loc.cols["rashd"], loc.clai)
  /\ LET win == RaWindow(<<6000, 6000, 12000, 18000>>, <<4000, 4000, 8000, 12000>>, <<0, 0, 2, 3>>)
     IN  win.lo = 75 * win.den /\ win.hi = 175 * win.den /\ win.den > 0
  /\ LET win == RaWindow(<<100000>>, <<100000>>, <<1>>)
     IN  win.lo = 900 * win.den /\ win.hi = 1100 * win.den /\ win.den > 0
  /\ LET win == RaWindow(<<100000>>, <<100000>>, <<0>>)
     IN  win.lo = -50 * win.den /\ win.hi = 50 * win.den /\ win.den > 0

C11_Witness ==
  /\ call.op = "pall1t.pltall1t" /\ status = "returned"
  /\ loc.clai = <<0, 1>>
  /\ Len(fig.raxlim) = 1 /\ fig.raxlim[1].nra = 1
  /\ loc.cols["rasun"][1] > 0

\* x is the least (the greatest) of the values of the sequence seq.
IsMinOf(x, seq) == (\E i \in 1..Len(seq) : seq[i] = x) /\ (\A i \in 1..Len(seq) : x <= seq[i])
IsMaxOf(x, seq) == (\E i \in 1..Len(seq) : seq[i] = x) /\ (\A i \in 1..Len(seq) : x >= seq[i])

\* Column col (0-based) of the profile file at path, from Kelvin to Celsius,
\* in hundredths of a degree.
CelsiusColumn(path, col) ==
  [k \in 1..(Len(fs[path]) - 1) |-> 100 * NumVal[fs[path][k + 1][col + 2]] - 27315]

\* C12: in pltall1t the temperature window is [min(tair) - d, max(tair) + d]
\* with d = max(5, max over the rows of |tlsun - tlshd|), the three being
\* the selected column of met/tk, canopy/tlsun and canopy/tlshd converted from
\* Kelvin to Celsius (of a well-formed file).  For leaf temperatures up to 8 apart and air between 10
\* and 20 the window is [2, 28]; for leaf temperatures 1 apart it is [5, 25].
C12_TemperatureWindow ==
  /\ \A j \in StmtsOf("dash") :
       Passed(j) =>
         LET tair  == loc.cols["tair"]
             tlsun == loc.cols["tlsun"]
             tlshd == loc.cols["tlshd"]
             dif   == [i \in 1..Len(tlsun) |-> IF tlsun[i] >= tlshd[i] THEN tlsun[i] - tlshd[i]
                                                ELSE tlshd[i] - tlsun[i]]
             win   == fig.txlim[1]
         IN  /\ Len(fig.txlim) = 1
             /\ \A dv \in {<<"met", "tk", "tair">>, <<"canopy", "tlsun", "tlsun">>,
                            <<"canopy", "tlshd", "tlshd">>} :
                  WellFormedProfile(fs[VarPath(SimName, dv[1], dv[2])]) =>
                    loc.cols[dv[3]] = CelsiusColumn(VarPath(SimName, dv[1], dv[2]), loc.sel[dv[3]])
             /\ arg["tslice"] >= 1 =>
                  \A n \in {"tair", "tlsun", "tlshd"} : loc.sel[n] = arg["tslice"] - 1
             /\ \E d \in 500..10000 :
                  /\ IsMaxOf(d, <<500>> \o dif)
                  /\ IsMinOf(win.lo + d, tair)
                  /\ IsMaxOf(win.hi - d, tair)
  /\ TempWindow(<<1000, 2000>>, <<1800, 1500>>, <<1000, 1400>>) = [lo |-> 200, hi |-> 2800]
  /\ TempWindow(<<2000, 1000>>, <<1500, 1500>>, <<1600, 1400>>) = [lo |-> 500, hi |-> 2500]

C12_Witness ==
  /\ call.op = "pall1t.pltall1t" /\ status = "returned"
  /\ Len(loc.cols["tlsun"]) = 2
  /\ loc.cols["tlsun"][2] - loc.cols["tlshd"][2] = 900
  /\ fig.txlim[1].hi - fig.txlim[1].lo = (loc.cols["tair"][2] - loc.cols["tair"][1]) + 1800

\* The datetime dt is the date and the time of day that the tokens say.
SaysDate(dt, tok) == tok = Dates[dt.day] \/ tok = LooseDates[dt.day]
SaysTime(dt, tok) == tok = TimeToks[dt.tod] \/ tok = LooseTimes[dt.tod]

\* label is the first five characters of the time-of-day token.
IsFirstFive(label, tok) ==
  \E k \in 1..Len(TimeToks) :
    \/ tok = TimeToks[k] /\ label = HrLabels[k]
    \/ tok = LooseTimes[k] /\ label = LooseLabels[k]

\* C13: timekeys skips the first line and returns one pair per remaining
\* line, in file order: pair i has the timestamp of tokens 2 and 3 of the
\* i-th line after the header and as label the first five characters of its
\* token 3; dts and hrs are of equal length.
C13_TimekeysPairsInFileOrder ==
  /\ Len(loc.dts) = Len(loc.hrs)
  /\ \A j \in StmtsOf("timekeys") :
       Passed(j) =>
         /\ TimekeyPath(SimName) \in DOMAIN fs
         /\ LET lines == fs[TimekeyPath(SimName)] IN
              /\ Len(loc.dts) = (IF Len(lines) = 0 THEN 0 ELSE Len(lines) - 1)
              /\ \A i \in 1..Len(loc.dts) :
                   /\ Len(lines[i + 1]) >= 3
                   /\ SaysDate(loc.dts[i], lines[i + 1][2])
                   /\ SaysTime(loc.dts[i], lines[i + 1][3])
                   /\ IsFirstFive(loc.hrs[i], lines[i + 1][3])

C13_Witness ==
  /\ call.op = "genspc.plotprofs" /\ pc > 1
  /\ Len(fs[TimekeyPath(SimName)]) = 4
  /\ fs[TimekeyPath(SimName)][3][3] = "01:00:00"
  /\ fs[TimekeyPath(SimName)][4][3] = "00:30:00"
  /\ loc.hrs = <<"00:00", "01:00", "00:30">>

\* C14: timekeys fails, and returns no part of a time index, whenever a line
\* after the header has fewer than 3 tokens (a blank line too) or its date
\* and time fields are not of the fixed pattern YYYY-MM-DD HH:MM:SS.
C14_MalformedTimekeyLineFails ==
  (/\ TimekeyPath(SimName) \in DOMAIN fs
   /\ \E k \in 2..Len(fs[TimekeyPath(SimName)]) :
        LET data == fs[TimekeyPath(SimName)][k] IN
        \/ Len(data) < 3
        \/ ~(IsIn(Dates, data[2]) /\ IsIn(TimeToks, data[3])))
  => /\ \A j \in StmtsOf("timekeys") : ~Passed(j)
     /\ loc.dts = << >> /\ loc.hrs = << >>

\* C15: get0Dvar of a scalar file with R rows after the header returns R
\* values, the i-th the second token of the i-th row, in row order; the first
\* token of a row is not looked at, and nothing of an earlier read is in the
\* result.
C15_ScalarValuesAreTheSecondTokens ==
  \A j \in StmtsOf("read0") :
    Passed(j) =>
      LET varname == call.vars[Prog[j].i]
          path    == VarPath(SimName, call.dirs[1], varname)
      IN  /\ path \in DOMAIN fs
          /\ Len(fs[path]) >= 1
          /\ Len(loc.varx[varname]) = Len(fs[path]) - 1
          /\ \A i \in 1..(Len(fs[path]) - 1) :
               /\ Len(fs[path][i + 1]) >= 2
               /\ loc.varx[varname][i] = NumVal[fs[path][i + 1][2]]

C15_Witness ==
  /\ call.op = "tseries.plottsm" /\ call.vars = <<"h", "le">> /\ status = "returned"
  /\ Len(fs[VarPath(SimName, "flux", "h")]) = 4
  /\ fs[VarPath(SimName, "flux", "h")][4] = <<"abc", "33">>
  /\ loc.varx["h"] = <<31, 32, 33>>
  /\ loc.varx["le"] = <<31, 32, 33>>

C17_EmittedFigureHasTimeIndexOfTableWidth ==
  \A j \in StmtsOf("output") :
    (Passed(j) /\ StmtsOf("loop") # {}) =>
      \A r \in StmtsOf("read") : loc.tabs[Prog[r].slot].nts = Len(loc.dts)


\* C18: when plottsm has returned, its figure holds exactly one series per
\* entry of varnames, and the i-th series carries the data read for
\* varnames[i], the label varlabels[i] and the colour scolors[i], also when
\* a variable name occurs more than once in the list.
C18_OneSeriesPerEntryWithItsOwnLabelAndColour ==
  (call.op = "tseries.plottsm" /\ status = "returned") =>
    /\ Len(fig.series) = Len(call.vars)
    /\ \A i \in 1..Len(call.vars) :
         /\ fig.series[i].data = get0Dvar(fs, SimName, call.dirs[1], call.vars[i]).var
         /\ fig.series[i].label = TsLabels[i]
         /\ fig.series[i].color = TsColors[i]

\* C19: when plottsm has returned, its figure has exactly one legend if more
\* than one variable was supplied and no legend if exactly one was; before
\* the legend statement the figure has none.
C19_LegendIffMoreThanOneVariable ==
  call.op = "tseries.plottsm" =>
    /\ status = "returned" => fig.legend = (IF Len(call.vars) > 1 THEN 1 ELSE 0)
    /\ fig.legend \in {0, 1}
    /\ fig.legend = 1 => (Len(call.vars) > 1 /\ \E j \in StmtsOf("legend") : Passed(j))

C19_Witness ==
  /\ call.op = "tseries.plottsm" /\ status = "returned"
  /\ Len(call.vars) = 2 /\ fig.legend = 1 /\ Len(fig.series) = 2
  /\ Len(fig.series[1].data) = SmallNts

\* C20: the minor ticks plottsm sets are 4 hours apart exactly when the
\* time index it read has more than 48 entries and one hour apart
\* otherwise, and it sets them once; 48 samples get the finer spacing.
C20_MinorTicksCoarserAboveFortyEightSamples ==
  call.op = "tseries.plottsm" =>
    /\ \A j \in StmtsOf("ticks") :
         Passed(j) => fig.ticks = << (IF Len(loc.dts) > 48 THEN 4 ELSE 1) >>
    /\ \A j \in StmtsOf("ticks") : ~Passed(j) => fig.ticks = << >>
    /\ status = "returned" /\ Len(fs[TimekeyPath(SimName)]) = 1 + 48 => fig.ticks = <<1>>
    /\ status = "returned" /\ Len(fs[TimekeyPath(SimName)]) = 1 + 49 => fig.ticks = <<4>>

C20_Witness ==
  /\ call.op = "tseries.plottsm" /\ status = "returned"
  /\ Len(loc.dts) = 49 /\ fig.ticks = <<4>>
  /\ Len(fig.series) = Len(call.vars) /\ Len(fig.series[1].data) = 49

\* C21: in a figure of two or three panels the series of a given ordinal has
\* the same colour in every panel, the first series of every panel has the
\* first colour of the palette, and the cursor is 0 when a panel's loop
\* starts, whatever number of series the panel before rendered.
C21_ColourCursorRestartsInEveryPanel ==
  (\E j \in StmtsOf("loop") : Prog[j].panel > 1) =>
    /\ \A p, q \in {Prog[j].panel : j \in StmtsOf("loop")} :
         \A k \in 1..Len(PanelSeries(p)) :
           k <= Len(PanelSeries(q)) => PanelSeries(p)[k].color = PanelSeries(q)[k].color
    /\ \A p \in {Prog[j].panel : j \in StmtsOf("loop")} :
         PanelSeries(p) # << >> => PanelSeries(p)[1].color = colors[1]
    /\ \A j \in StmtsOf("loop") :
         (status = "running" /\ pc = j /\ loc.m = 0) => loc.ic = 0

C21_Witness ==
  /\ call.op \in {"genvar.plotprofs3", "canopy.plotall3"} /\ status = "returned"
  /\ Len(PanelSeries(1)) = SmallNts /\ Len(PanelSeries(3)) = SmallNts
  /\ PanelSeries(3)[1].color = colors[1] /\ PanelSeries(2)[2].color = colors[2]

\* C22: in genspc.plotprofs, budget.plotprofs and rxns.plotprofs, once the
\* x-axis statement has run, no x-axis limit is set when xmax is -1 and the
\* one limit [-0.1, xmax] is set otherwise; before it, and in every other
\* composer, no x-axis limit is set.
C22_XAxisLeftAutomaticOnSentinel ==
  /\ (call.op \in {"genspc.plotprofs", "budget.plotprofs", "rxns.plotprofs"}) <=> (StmtsOf("xlim") # {})
  /\ StmtsOf("xlim") = {} => fig.xlim = << >>
  /\ \A j \in StmtsOf("xlim") :
       /\ ~Passed(j) => fig.xlim = << >>
       /\ Passed(j) =>
            /\ "xmax" \in drawn
            /\ arg["xmax"] = -1 => fig.xlim = << >>
            /\ arg["xmax"] # -1 => fig.xlim = << [lo |-> "-0.1", hi |-> arg["xmax"]] >>

C22_Witness ==
  /\ call.op = "budget.plotprofs" /\ status = "returned"
  /\ arg["xmax"] = 5 /\ fig.xlim = << [lo |-> "-0.1", hi |-> 5] >>
  /\ Len(fig.series) = Len(BudgetTerms)

\* The y-axis upper bound of a composer that takes zmax, as its y-axis
\* statement j leaves it: the last coordinate value for -1, else zmax.
ResolvedBound(j) ==
  LET z == loc.tabs[Prog[j].zslot].z IN
  IF arg["zmax"] = -1 THEN z[Len(z)] ELSE arg["zmax"]

\* C23: once the marker statement has run, the one canopy-height line at hc
\* is drawn if the resolved y-axis upper bound is strictly greater than hc,
\* and none is drawn if the bound equals hc or is below it; no line is drawn
\* before that statement.
C23_MarkerLineIffBoundAboveCanopyHeight ==
  \A j \in StmtsOf("hcline") :
    /\ ~Passed(j) => fig.hcl = << >>
    /\ Passed(j) =>
         \A y \in StmtsOf("ylim") :
           /\ Prog[y].mode = "sentinel" /\ y < j
           /\ ResolvedBound(y) > arg["hc"] => fig.hcl = << arg["hc"] >>
           /\ ResolvedBound(y) <= arg["hc"] => fig.hcl = << >>

C23_Witness ==
  /\ call.op = "budget.plotprofs" /\ status = "returned"
  /\ arg["zmax"] = -1 /\ loc.tabs[5].z = <<0, 20>> /\ arg["hc"] = 20
  /\ fig.ylim = <<20>> /\ fig.hcl = << >>

\* The result of the reader call of statement i on a directory that holds
\* nothing but the file of the given contents.
ReadAlone(path, i, contents) ==
  ReaderResult(IF contents[1] = "file" THEN (path :> contents[2]) ELSE << >>, call, i)

WellFormedRun(sh) ==
  /\ sh.nz >= 1 /\ sh.ncols >= 1 /\ sh.hlen = sh.ncols
  /\ fs = GenFS(call, sh, "none", 0)

\* C25: pltall1t, on a well-formed run of nts time steps and with a time
\* slice in 1..nts, raises nothing, and once it has returned it has reached
\* pltoutput exactly once (the img directory being there).
C25_EveryTimeSliceCompletes ==
  (/\ call.op = "pall1t.pltall1t"
   /\ "tslice" \in drawn /\ arg["imgdir"] # "absent"
   /\ \E sh \in Shapes : WellFormedRun(sh) /\ arg["tslice"] \in 1..sh.ncols)
  => /\ status # "raised"
     /\ status = "returned" => Len(out.saved) + out.shown = 1

\* C26: rxns.plotprofs, on a well-formed run, raises nothing between reading
\* the data and pltoutput, and once it has returned it has reached pltoutput
\* exactly once, under the name "rates" for the directory "rates" and "ks"
\* for any other (the img directory being there).
C26_RxnsProfileReachesOutput ==
  (/\ call.op = "rxns.plotprofs"
   /\ arg["imgdir"] # "absent"
   /\ \E sh \in Shapes : WellFormedRun(sh))
  => /\ status # "raised"
     /\ status = "returned" =>
          /\ Len(out.saved) + out.shown = 1
          /\ \A j \in StmtsOf("output") :
               Prog[j].name = (IF call.dirs[1] = "rates" THEN "rates" ELSE "ks")

\* C27: in pltall1t, once laiprof.dat is read, lai and clai have the length
\* of the vertical coordinate; and once the figure is emitted, laiprof.dat
\* has exactly as many data rows as the coordinate has levels, and entry k
\* of lai and clai is token 2 and token 3 of data row k.
C27_LeafAreaFilledEntirelyFromFile ==
  call.op = "pall1t.pltall1t" =>
    /\ \A j \in StmtsOf("lai") :
         Passed(j) => (Len(loc.lai) = Len(loc.z) /\ Len(loc.clai) = Len(loc.z))
    /\ \A j \in StmtsOf("output") :
         Passed(j) =>
           LET rows == PyTail(fs[LaiPath(SimName)]) IN
             /\ Len(rows) = Len(loc.z)
             /\ \A k \in 1..Len(rows) :
                  /\ loc.lai[k] = Float(rows[k][2])
                  /\ loc.clai[k] = Float(rows[k][3])

\* C28: in every panel of a sampled profile figure the k-th series plots
\* column (k-1)*intdt of its table and carries the label of that very time
\* step: the entry of hrs at that ordinal, which is the first five
\* characters of the time of day in that line of the time-key file.
C28_SeriesLabelIsOfItsOwnColumn ==
  StmtsOf("loop") # {} =>
    \A p \in {Prog[j].panel : j \in StmtsOf("loop")} :
      \A k \in 1..Len(PanelSeries(p)) :
        LET s == PanelSeries(p)[k] IN
          /\ s.col = (k - 1) * call.intdt
          /\ s.col < Len(loc.hrs)
          /\ s.label = loc.hrs[s.col + 1]
          /\ IsFirstFive(s.label, fs[TimekeyPath(SimName)][s.col + 2][3])

C28_Witness ==
  /\ call.op = "genvar.plotprofs2" /\ status = "returned" /\ call.intdt = 2
  /\ Len(PanelSeries(2)) = 2
  /\ PanelSeries(2)[2].col = 2 /\ PanelSeries(2)[2].label = "01:00"
  /\ PanelSeries(1)[1].label = "00:00"

\* C29: pltoutput writes a file for the selectors "pdf" and "png" only;
\* with any other selector ("x11", "PDF", a misspelling, the empty string)
\* it does not fail, writes no file and shows the display once.
C29_OtherSelectorsShowTheDisplay ==
  \A j \in StmtsOf("output") :
    LET t == arg["outtype"] IN
      /\ out.saved # << >> => (Passed(j) /\ t \in {"pdf", "png"})
      /\ (Passed(j) /\ t \notin {"pdf", "png"}) => (out.saved = << >> /\ out.shown = 1)
      /\ (status = "raised" /\ pc = j) => ("outtype" \in drawn /\ t \in {"pdf", "png"})

C29_Witness ==
  /\ call.op = "genvar.plotprofs1" /\ status = "returned"
  /\ "outtype" \in drawn /\ arg["outtype"] = "PDF"
  /\ out.saved = << >> /\ out.shown = 1 /\ Len(fig.series) = SmallNts
====
